---- MODULE Spec2Model ----
(***************************************************************************)
(* Repair engine (repair.py), fitness evaluators (ga/evaluator.py,         *)
(* fitness.py) and chromosome encoding (utils.py) of the EVRP genetic      *)
(* algorithm.  Node identifiers are the strings of the program ("D1",      *)
(* "C1", "S1", ...), the route separator is "|".  Distances, capacities    *)
(* and rates are integers; a fitness value is the exact rational           *)
(* num / den.                                                              *)
(***************************************************************************)
EXTENDS Integers, Sequences, FiniteSets, TLC

VARIABLES
    chromosome,          \* argument: the flat chromosome
    dist_matrix,         \* repair argument: nested lookup dist_matrix[u][v]
    station_ids,         \* repair argument: list of station identifiers
    battery_capacity,    \* argument
    consumption_rate,    \* argument
    routes,              \* repair_chromosome: parsed routes
    r,                   \* repair_chromosome: position of `for route in routes` (1-based)
    new_route,           \* repair_chromosome: route under construction
    current_node,        \* repair_chromosome
    current_battery,     \* repair_chromosome
    i,                   \* repair_chromosome: loop index (0-based, as in the code)
    repaired_chromosome, \* repair_chromosome: output under construction
    dead_end,            \* history: the dead-end branch was taken in this call
    distance_matrix,     \* ga.evaluator argument: [shape, entries]
    legacy_matrix,       \* fitness.py argument distance_matrix: [given, entries]
    node_coords,         \* fitness.py argument node_coords: [given, entries]
    fitness,             \* value returned by ga.evaluator.fitness_function
    legacy_fitness,      \* value returned by fitness.fitness_function
    nested,              \* value returned by split_routes
    flat,                \* value returned by join_routes
    evaluator_call,      \* ga.evaluator.fitness_function followed step by step:
                         \* its rate and weight arguments and its locals
    builder_call,        \* the matrix builders: the node coordinates and what each returns
    crossover_call,      \* bcrc_crossover: parents, drawn customer, children
    selection_call,      \* selection: arguments and returned parents
    mutation_call,       \* reassign_customer_to_depot: arguments and result
    integrated_call,     \* run_integrated_ga: configuration and locals of the generation loop
    ga,                  \* the GeneticAlgorithmEVRP object and the locals of run_generation
    first_pass,          \* history: argument and result of an earlier call of repair_chromosome
    pc                   \* position in the running operation

repair_args == <<dist_matrix, station_ids>>
repair_locals == <<routes, r, new_route, current_node, current_battery, i,
                   repaired_chromosome, dead_end>>
fitness_args == <<distance_matrix, legacy_matrix, node_coords>>
fitness_results == <<fitness, legacy_fitness>>
encoding_results == <<nested, flat>>
driver_frames == <<integrated_call, ga, first_pass>>
call_frames == <<evaluator_call, builder_call, crossover_call, selection_call, mutation_call,
                 driver_frames>>

vars == <<chromosome, battery_capacity, consumption_rate, repair_args, repair_locals,
          fitness_args, fitness_results, encoding_results, call_frames, pc>>

others == <<fitness_args, fitness_results, encoding_results, call_frames>>

args == <<chromosome, dist_matrix, station_ids, battery_capacity, consumption_rate, others>>

----------------------------------------------------------------------------
(* Bounds of the explored inputs *)

\* largest coordinate of a node on the line of the generic instances
MaxPos == 2
\* largest battery capacity of the generic instances
MaxCap == 3
\* largest number of customer/station genes in a generated chromosome
MaxStops == 2
\* largest length of an arbitrary (possibly degenerate) chromosome
MaxLen == 3
\* largest length of a chromosome given to split_routes / join_routes
MaxFlat == 5
\* longest new_route the model follows inside one route: a route of the
\* inputs has at most MaxStops + 2 nodes, and twice that is more than any
\* returning call builds (see BlockedOnlyWhenSpinning)
MaxNewRoute == 2 * (MaxStops + 2)

----------------------------------------------------------------------------
(* Identifiers *)

Depots == {"D1"}
\* the second depot of the chromosomes given to the mutation
OtherDepots == {"D2"}
\* customers of the instances whose node ids are all different
OtherCustomers == {"C3", "C4"}
\* the genes generate_initial_chromosome writes are the node ids themselves,
\* integers: "1" stands for the integer 1, and so on
IntegerGenes_in_order == <<"1", "2", "3", "4">>
IntegerGenes == {IntegerGenes_in_order[n] : n \in 1..4}
\* isinstance(node, str); an integer has no method startswith
isinstance_str(node) == node \notin IntegerGenes
Customers == {"C1", "C2"}
Stations == {"S1", "S2"}
Nodes == Depots \cup Customers \cup Stations
Separator == "|"
None == "None"
\* extract_id's None
NoId == 0 - 1

\* str.startswith(p) for a one-character prefix, over the identifiers used
startswith(node, p) ==
    CASE node \in Depots \cup OtherDepots -> p = "D"
      [] node \in Customers \cup OtherCustomers -> p = "C"
      [] node \in Stations  -> p = "S"
      [] OTHER              -> p = node

\* float('inf')
Inf == 0 - 1

\* utils.INFEASIBLE_PENALTY = 1e6
INFEASIBLE_PENALTY == 1000000

\* default weights of fitness_function, in tenths
W_DISTANCE == 6
W_CHARGING == 4

\* the first argument whatever the second: a top-up that no capacity caps
uncapped(a, b) == a

Min(a, b) == IF a <= b THEN a ELSE b
Max(a, b) == IF a >= b THEN a ELSE b

----------------------------------------------------------------------------
(* utils.py: chromosome encoding *)

RECURSIVE split_from(_, _, _, _)
split_from(chrom, k, acc, cur) ==
    IF k > Len(chrom)
    THEN IF cur # <<>> THEN Append(acc, cur) ELSE acc
    ELSE IF chrom[k] = Separator
         THEN IF cur # <<>>
              THEN split_from(chrom, k + 1, Append(acc, cur), <<>>)
              ELSE split_from(chrom, k + 1, acc, cur)
         ELSE split_from(chrom, k + 1, acc, Append(cur, chrom[k]))

split_routes(chrom) == split_from(chrom, 1, <<>>, <<>>)

\* join_routes without the separators
join_without_separator(rs) ==
    LET RECURSIVE cat(_)
        cat(k) == IF k > Len(rs) THEN <<>> ELSE rs[k] \o cat(k + 1)
    IN cat(1)

RECURSIVE join_from(_, _, _)
join_from(rs, k, chrom) ==
    IF k > Len(rs) THEN chrom
    ELSE join_from(rs, k + 1,
                   (IF k > 1 THEN Append(chrom, Separator) ELSE chrom) \o rs[k])

join_routes(rs) == join_from(rs, 1, <<>>)

\* get_distance on the two supported shapes of matrix.  A matrix
\* is [shape, entries]: entries maps the pairs <<a, b>> that have a value.
\*   "tuple":  matrix[(a, b)]; no reverse lookup
\*   "nested": matrix[a][b], then matrix[b][a]
get_distance(a, b, matrix) ==
    IF a = b THEN 0
    ELSE IF matrix.shape = "tuple"
         THEN IF <<a, b>> \in DOMAIN matrix.entries
              THEN matrix.entries[<<a, b>>]
              ELSE Inf
         ELSE IF <<a, b>> \in DOMAIN matrix.entries
              THEN matrix.entries[<<a, b>>]
              ELSE IF <<b, a>> \in DOMAIN matrix.entries
                   THEN matrix.entries[<<b, a>>]
                   ELSE Inf

\* a complete nested dict dm[u][v] as a matrix argument
Nested(dm) ==
    [shape |-> "nested",
     entries |-> [p \in (DOMAIN dm) \X (DOMAIN dm) |-> dm[p[1]][p[2]]]]

----------------------------------------------------------------------------
(* ga/evaluator.py *)

\* a returned fitness value num / den (den > 0)
Value(n, d) == [status |-> "returned", num |-> n, den |-> d]
Raised(e) == [status |-> e, num |-> 0, den |-> 1]

\* a lookahead that stops after the first hop
energy_of_next_hop(rt, j, matrix, rate) ==
    IF j >= Len(rt) - 1 THEN 0
    ELSE LET d2 == get_distance(rt[j + 1], rt[j + 2], matrix)
         IN IF d2 = Inf THEN Inf ELSE d2 * rate

\* lookahead of a station: energy of the hops from index j (0-based) up to
\* and including the hop that reaches a station or depot; Inf when a hop of
\* the lookahead is unreachable
RECURSIVE energy_needed_to_next(_, _, _, _)
energy_needed_to_next(rt, j, matrix, rate) ==
    IF j >= Len(rt) - 1 THEN 0
    ELSE LET u == rt[j + 1]
             v == rt[j + 2]
             d2 == get_distance(u, v, matrix)
         IN IF d2 = Inf THEN Inf
            ELSE IF startswith(v, "S") \/ startswith(v, "D")
                 THEN d2 * rate
                 ELSE LET rest == energy_needed_to_next(rt, j + 1, matrix, rate)
                      IN IF rest = Inf THEN Inf ELSE d2 * rate + rest

\* the two nested loops of fitness_function from route ri (1-based), hop k
\* (0-based) on; total_required is the charged energy, the charging time
\* is total_required / charging_rate
RECURSIVE walk(_, _, _, _, _, _, _)
walk(rs, ri, k, battery, total_distance, total_required, cfg) ==
    IF ri > Len(rs)
    THEN [outcome |-> "feasible", total_distance |-> total_distance,
          total_required |-> total_required]
    ELSE IF k >= Len(rs[ri]) - 1
    THEN walk(rs, ri + 1, 0, cfg.battery_capacity, total_distance, total_required, cfg)
    ELSE
      LET a == rs[ri][k + 1]
          b == rs[ri][k + 2]
          dist == get_distance(a, b, cfg.matrix)
          needed_energy == dist * cfg.consumption_rate
          ahead == energy_needed_to_next(rs[ri], k, cfg.matrix, cfg.consumption_rate)
          required_energy == Max(0, ahead - battery)
          charged == Min(battery + required_energy, cfg.battery_capacity)
          penalty == [outcome |-> "infeasible", total_distance |-> 0, total_required |-> 0]
      IN IF dist = Inf THEN penalty
         ELSE IF startswith(a, "S")
         THEN IF ahead = Inf THEN penalty
              ELSE IF cfg.charging_rate = 0
              THEN [outcome |-> "ZeroDivisionError", total_distance |-> 0, total_required |-> 0]
              ELSE IF charged < needed_energy THEN penalty
              ELSE walk(rs, ri, k + 1, charged - needed_energy, total_distance + dist,
                        total_required + required_energy, cfg)
         ELSE IF battery < needed_energy THEN penalty
              ELSE walk(rs, ri, k + 1, battery - needed_energy, total_distance + dist,
                        total_required, cfg)

\* the charging time taken as energy times rate instead of energy over rate
score_multiplies_rate(w_distance, w_charging, total_distance, total_required, charging_rate) ==
    Value(w_distance * total_distance + w_charging * total_required * charging_rate, 1000)

\* w_distance * (total_distance / 100) + w_charging * (total_charging_time / 100)
\* with the weights in tenths and total_charging_time the sum of
\* required_energy / charging_rate over the station stops, that is
\* total_required / charging_rate (0.0 when nothing was charged, whatever
\* the rate)
score(w_distance, w_charging, total_distance, total_required, charging_rate) ==
    IF total_required = 0
    THEN Value(w_distance * total_distance, 1000)
    ELSE LET sign == IF charging_rate < 0 THEN 0 - 1 ELSE 1
         IN Value(sign * (w_distance * total_distance * charging_rate
                          + w_charging * total_required),
                  sign * 1000 * charging_rate)

\* fitness_function(chromosome, matrix, battery_capacity,
\* consumption_rate, charging_rate, w_distance, w_charging); the weights are
\* given in tenths (6 is 0.6)
fitness_function(chrom, matrix, cap, rate, charging_rate, w_distance, w_charging) ==
    LET res == walk(split_routes(chrom), 1, 0, cap, 0, 0,
                    [matrix |-> matrix, battery_capacity |-> cap,
                     consumption_rate |-> rate, charging_rate |-> charging_rate])
    IN CASE res.outcome = "infeasible" -> Value(INFEASIBLE_PENALTY, 1)
         [] res.outcome = "ZeroDivisionError" -> Raised("ZeroDivisionError")
         [] OTHER -> score(w_distance, w_charging, res.total_distance,
                           res.total_required, charging_rate)

\* comparisons of a returned value with an integer
IsValue(v, n) == v.status = "returned" /\ v.num % v.den = 0 /\ v.num \div v.den = n
Below(v, n) == v.status = "returned" /\ v.num \div v.den < n

----------------------------------------------------------------------------
(* fitness.py: the evaluator the drivers call *)

\* the chromosome parsing loop that repair.py and fitness.py both carry:
\* cut at "|", keep the non-empty routes
RECURSIVE parse_from(_, _, _, _)
parse_from(chrom, k, acc, cur) ==
    IF k > Len(chrom)
    THEN IF cur # <<>> THEN Append(acc, cur) ELSE acc
    ELSE IF chrom[k] = "|"
         THEN parse_from(chrom, k + 1, IF cur # <<>> THEN Append(acc, cur) ELSE acc, <<>>)
         ELSE parse_from(chrom, k + 1, acc, Append(cur, chrom[k]))

parse_routes(chrom) == parse_from(chrom, 1, <<>>, <<>>)

\* invalid_penalty = 1e9
invalid_penalty == 1000000000

\* extract_id: int(node_str[1:]), None when that is not an integer
extract_id(node_str) ==
    CASE node_str \in {"D1", "C1", "S1"} -> 1
      [] node_str \in {"C2", "S2", "D2"} -> 2
      [] node_str = "C3"                 -> 3
      [] node_str = "C4"                 -> 4
      [] OTHER                           -> NoId

\* the integer an integer gene stands for
int(node) == CHOOSE n \in 1..4 : node = IntegerGenes_in_order[n]

\* ((ax - bx) ** 2 + (ay - by) ** 2) ** 0.5 for coordinates whose distance
\* is an integer
euclid(pa, pb) ==
    LET sq == (pa[1] - pb[1]) * (pa[1] - pb[1]) + (pa[2] - pb[2]) * (pa[2] - pb[2])
    IN CHOOSE n \in 0..sq : n * n = sq

\* a distance lookup that answers one unit more than the entry
legacy_distance_plus_one(a, b, matrix, coords) ==
    LET id_a == IF isinstance_str(a) THEN extract_id(a) ELSE int(a)
        id_b == IF isinstance_str(b) THEN extract_id(b) ELSE int(b)
    IN IF matrix.given /\ <<id_a, id_b>> \in DOMAIN matrix.entries
       THEN matrix.entries[<<id_a, id_b>>] + 1
       ELSE IF coords.given /\ id_a \in DOMAIN coords.entries
                                /\ id_b \in DOMAIN coords.entries
       THEN euclid(coords.entries[id_a], coords.entries[id_b]) + 1
       ELSE 0

\* the inner get_distance: matrix is keyed by pairs of integer
\* ids, coords by integer id; each is [given, entries] (given = FALSE
\* is None)
legacy_get_distance(a, b, matrix, coords) ==
    LET id_a == IF isinstance_str(a) THEN extract_id(a) ELSE int(a)
        id_b == IF isinstance_str(b) THEN extract_id(b) ELSE int(b)
    IN IF id_a = NoId \/ id_b = NoId THEN 0
       ELSE IF matrix.given /\ <<id_a, id_b>> \in DOMAIN matrix.entries
       THEN matrix.entries[<<id_a, id_b>>]
       ELSE IF matrix.given /\ <<id_b, id_a>> \in DOMAIN matrix.entries
       THEN matrix.entries[<<id_b, id_a>>]
       ELSE IF coords.given /\ id_a \in DOMAIN coords.entries
                                /\ id_b \in DOMAIN coords.entries
       THEN euclid(coords.entries[id_a], coords.entries[id_b])
       ELSE 0

\* number of routes with exactly one customer (each adds 0.5)
RECURSIVE single_customer_routes(_, _)
single_customer_routes(rs, ri) ==
    IF ri > Len(rs) THEN 0
    ELSE (IF Cardinality({k \in 1..Len(rs[ri]) : startswith(rs[ri][k], "C")}) = 1
          THEN 1 ELSE 0)
         + single_customer_routes(rs, ri + 1)

\* the evaluation loops of the legacy fitness_function from route ri
\* (1-based), hop k (0-based) on
RECURSIVE legacy_walk(_, _, _, _, _, _)
legacy_walk(rs, ri, k, battery, total_distance, cfg) ==
    IF ri > Len(rs)
    THEN [outcome |-> "feasible", total_distance |-> total_distance]
    ELSE IF Len(rs[ri]) < 2 \/ k >= Len(rs[ri]) - 1
    THEN legacy_walk(rs, ri + 1, 0, cfg.battery_capacity, total_distance, cfg)
    ELSE
      LET cur == rs[ri][k + 1]
          nxt == rs[ri][k + 2]
          dist == legacy_get_distance(cur, nxt, cfg.matrix, cfg.coords)
          energy_needed == dist * cfg.consumption_rate
      IN IF startswith(nxt, "S")
         THEN legacy_walk(rs, ri, k + 1, cfg.battery_capacity, total_distance, cfg)
         ELSE IF battery < energy_needed
              THEN [outcome |-> "infeasible", total_distance |-> 0]
              ELSE legacy_walk(rs, ri, k + 1, battery - energy_needed,
                               total_distance + dist, cfg)

\* fitness.fitness_function(chromosome, matrix, coords,
\* battery_capacity, consumption_rate, w1, w2); weights in tenths.  The
\* charging time of this evaluator is always 0.
legacy_fitness_function(chrom, matrix, coords, cap, rate, w1, w2) ==
    LET rs == parse_routes(chrom)
        res == legacy_walk(rs, 1, 0, cap, 0,
                           [matrix |-> matrix, coords |-> coords,
                            battery_capacity |-> cap, consumption_rate |-> rate])
    IN IF res.outcome = "infeasible"
       THEN Value(invalid_penalty, 1)
       ELSE Value(w1 * res.total_distance + w2 * 0 + 500 * single_customer_routes(rs, 1), 1000)

----------------------------------------------------------------------------
(* repair.py *)

\* find_nearest_reachable_station_fast: scan station_ids in order, keep the
\* strictly nearest station whose distance the battery covers.  min_dist
\* starts at float('inf').
RECURSIVE nearest_from(_, _, _, _, _, _, _, _)
nearest_from(node, sids, dm, battery, rate, k, best_station, min_dist) ==
    IF k > Len(sids) THEN best_station
    ELSE LET s_id == sids[k]
             dist == dm[node][s_id]
             energy_needed == dist * rate
         IN IF battery >= energy_needed /\ (min_dist = Inf \/ dist < min_dist)
            THEN nearest_from(node, sids, dm, battery, rate, k + 1, s_id, dist)
            ELSE nearest_from(node, sids, dm, battery, rate, k + 1, best_station, min_dist)

\* the first station the battery covers, however far
first_reachable_station(node, sids, dm, battery, rate) ==
    LET covered == {k \in 1..Len(sids) : battery >= dm[node][sids[k]] * rate}
    IN IF covered = {} THEN None
       ELSE sids[CHOOSE k \in covered : \A k2 \in covered : k <= k2]

find_nearest_reachable_station_fast(node, sids, dm, battery, rate) ==
    nearest_from(node, sids, dm, battery, rate, 1, None, Inf)

\* calculate_energy_to_next_stop: energy of the hops of `route` from index
\* current_idx (0-based) up to and including the hop that reaches a depot or
\* station.
RECURSIVE calculate_energy_to_next_stop(_, _, _, _)
calculate_energy_to_next_stop(route, current_idx, dm, rate) ==
    IF current_idx >= Len(route) - 1 THEN 0
    ELSE LET u == route[current_idx + 1]
             v == route[current_idx + 2]
             e == dm[u][v] * rate
         IN IF startswith(v, "D") \/ startswith(v, "S")
            THEN e
            ELSE e + calculate_energy_to_next_stop(route, current_idx + 1, dm, rate)

route == routes[r]
next_node == route[i + 2]

\* battery after the partial-charging step of one loop iteration
\* the charge taken at every node, customers included
charged_at_every_node ==
    Min(battery_capacity,
        Max(current_battery,
            calculate_energy_to_next_stop(route, i, dist_matrix, consumption_rate)))

charged_battery ==
    IF startswith(current_node, "D") \/ startswith(current_node, "S")
    THEN Min(battery_capacity,
             Max(current_battery,
                 calculate_energy_to_next_stop(route, i, dist_matrix, consumption_rate)))
    ELSE current_battery

\* the hop's energy taken one too high
hop_energy_plus_one == dist_matrix[current_node][next_node] * consumption_rate + 1

hop_energy_needed == dist_matrix[current_node][next_node] * consumption_rate

chosen_station ==
    find_nearest_reachable_station_fast(current_node, station_ids, dist_matrix,
                                        charged_battery, consumption_rate)

InLoop == pc = "loop" /\ i < Len(route) - 1

Parse ==
    /\ pc = "parse"
    /\ routes' = parse_routes(chromosome)
    /\ repaired_chromosome' = <<>>
    /\ r' = 1
    /\ pc' = "route"
    /\ UNCHANGED <<args, new_route, current_node, current_battery, i, dead_end>>

StartRoute ==
    /\ pc = "route"
    /\ r <= Len(routes)
    /\ route # <<>>
    /\ new_route' = <<route[1]>>
    /\ current_node' = route[1]
    /\ current_battery' = battery_capacity
    /\ i' = 0
    /\ pc' = "loop"
    /\ UNCHANGED <<args, routes, r, repaired_chromosome, dead_end>>

\* a traversal that leaves the charging stations of the input route out of
\* new_route, so that only the stations the repair inserts are kept
TravelWithoutRouteStations ==
    /\ InLoop
    /\ charged_battery >= hop_energy_needed
    /\ current_battery' = charged_battery - hop_energy_needed
    /\ new_route' = IF startswith(next_node, "S") THEN new_route
                                                  ELSE Append(new_route, next_node)
    /\ current_node' = next_node
    /\ i' = i + 1
    /\ UNCHANGED <<args, routes, r, repaired_chromosome, dead_end, pc>>

Travel ==
    /\ InLoop
    /\ charged_battery >= hop_energy_needed
    /\ current_battery' = charged_battery - hop_energy_needed
    /\ new_route' = Append(new_route, next_node)
    /\ current_node' = next_node
    /\ i' = i + 1
    /\ UNCHANGED <<args, routes, r, repaired_chromosome, dead_end, pc>>

\* the station written over the last node of new_route instead of after it
InsertStationReplaces ==
    /\ InLoop
    /\ charged_battery < hop_energy_needed
    /\ chosen_station # None
    /\ Len(new_route) < MaxNewRoute
    /\ current_battery' = charged_battery
                          - dist_matrix[current_node][chosen_station] * consumption_rate
    /\ new_route' = [new_route EXCEPT ![Len(new_route)] = chosen_station]
    /\ current_node' = chosen_station
    /\ UNCHANGED <<args, routes, r, i, repaired_chromosome, dead_end, pc>>

InsertStation ==
    /\ InLoop
    /\ charged_battery < hop_energy_needed
    /\ chosen_station # None
    /\ Len(new_route) < MaxNewRoute
    /\ current_battery' = charged_battery
                          - dist_matrix[current_node][chosen_station] * consumption_rate
    /\ new_route' = Append(new_route, chosen_station)
    /\ current_node' = chosen_station
    /\ UNCHANGED <<args, routes, r, i, repaired_chromosome, dead_end, pc>>

\* the dead end skipping the pending node instead of forcing the hop
DeadEndDropsNode ==
    /\ InLoop
    /\ charged_battery < hop_energy_needed
    /\ chosen_station = None
    /\ new_route' = new_route
    /\ current_battery' = 0
    /\ current_node' = next_node
    /\ i' = i + 1
    /\ dead_end' = TRUE
    /\ UNCHANGED <<args, routes, r, repaired_chromosome, pc>>

DeadEnd ==
    /\ InLoop
    /\ charged_battery < hop_energy_needed
    /\ chosen_station = None
    /\ new_route' = Append(new_route, next_node)
    /\ current_battery' = 0
    /\ current_node' = next_node
    /\ i' = i + 1
    /\ dead_end' = TRUE
    /\ UNCHANGED <<args, routes, r, repaired_chromosome, pc>>

EndRoute ==
    /\ pc = "loop"
    /\ ~(i < Len(route) - 1)
    /\ repaired_chromosome' = Append(repaired_chromosome \o new_route, "|")
    /\ r' = r + 1
    /\ pc' = "route"
    /\ UNCHANGED <<args, routes, new_route, current_node, current_battery, i, dead_end>>

Return ==
    /\ pc = "route"
    /\ r > Len(routes)
    /\ repaired_chromosome' =
          IF repaired_chromosome # <<>>
             /\ repaired_chromosome[Len(repaired_chromosome)] = "|"
          THEN SubSeq(repaired_chromosome, 1, Len(repaired_chromosome) - 1)
          ELSE repaired_chromosome
    /\ pc' = "done"
    /\ UNCHANGED <<args, routes, r, new_route, current_node, current_battery, i, dead_end>>

----------------------------------------------------------------------------
(* Inputs *)

\* symmetric distances of nodes placed on a line, zero self-distance
Abs(x) == IF x < 0 THEN 0 - x ELSE x
LineMatrix(pos) == [u \in Nodes |-> [v \in Nodes |-> Abs(pos[u] - pos[v])]]

Place(d1, c1, c2, s1, s2) ==
    [n \in Nodes |-> CASE n = "D1" -> d1 [] n = "C1" -> c1 [] n = "C2" -> c2
                        [] n = "S1" -> s1 [] OTHER -> s2]

Instance(pos, sids, cap, rate) ==
    [dist_matrix |-> LineMatrix(pos), station_ids |-> sids,
     battery_capacity |-> cap, consumption_rate |-> rate]

\* the depot at 0; a station that is not offered stays at 0
GenericInstances ==
    {Instance(Place(0, q[1], q[2], q[3], 0), sl, cap, 1) :
        q \in (0..MaxPos) \X (0..MaxPos) \X (0..MaxPos),
        sl \in {<<>>, <<"S1">>}, cap \in 1..MaxCap}
    \cup
    {Instance(Place(0, q[1], q[2], q[3], q[4]), <<"S1", "S2">>, cap, 1) :
        q \in (0..MaxPos) \X (0..MaxPos) \X (0..MaxPos) \X (0..MaxPos),
        cap \in 1..MaxCap}

\* spec section 8, property 6: distance(D1,C1) = 60, distance(D1,S1) = 10,
\* distance(S1,C1) = 50, battery_capacity = 100, consumption_rate = 1
StationInsertionScenario == Instance(Place(0, 60, 0, 10, 0), <<"S1">>, 100, 1)

\* spec section 8, property 5: distance(D1,C1) = 2, battery_capacity = 100,
\* consumption_rate = 1
FeasibleScenario == Instance(Place(0, 2, 0, 10, 0), <<"S1">>, 100, 1)

\* a station one unit behind C1 on the way D1 -> C1 -> C2 -> D1
DetourScenario == Instance(Place(0, 3, 1, 4, 0), <<"S1">>, 4, 1)

\* a consumption rate other than 1
RateScenario == Instance(Place(0, 1, 2, 1, 0), <<"S1">>, 4, 2)

Instances ==
    GenericInstances
    \cup {StationInsertionScenario, FeasibleScenario, DetourScenario, RateScenario}

Stops == {"C1", "C2", "S1"}
Middles(n) == UNION {[1..k -> Stops] : k \in 0..n}
DepotRoute(m) == <<"D1">> \o m \o <<"D1">>

\* one or two routes D1 ... D1 with at most MaxStops stops in all
WellFormedChromosomes ==
    {DepotRoute(m) : m \in Middles(MaxStops)}
    \cup {DepotRoute(q[1]) \o <<"|">> \o DepotRoute(q[2]) :
            q \in {w \in Middles(MaxStops) \X Middles(MaxStops) :
                      Len(w[1]) + Len(w[2]) <= MaxStops}}

\* every gene sequence up to MaxLen, separators anywhere
ArbitraryChromosomes == UNION {[1..k -> {"D1", "C1", "S1", "|"}] : k \in 0..MaxLen}

Chromosomes == WellFormedChromosomes \cup ArbitraryChromosomes

\* values of the variables an operation does not use
NoMatrix == [shape |-> "tuple", entries |-> <<>>]
NotGiven == [given |-> FALSE, entries |-> <<>>]
NoValue == Raised("not called")

RepairIdle ==
    /\ dist_matrix = <<>>
    /\ station_ids = <<>>
    /\ routes = <<>>
    /\ r = 1
    /\ new_route = <<>>
    /\ current_node = None
    /\ current_battery = 0
    /\ i = 0
    /\ repaired_chromosome = <<>>
    /\ dead_end = FALSE

FitnessIdle ==
    /\ distance_matrix = NoMatrix
    /\ legacy_matrix = NotGiven
    /\ node_coords = NotGiven
    /\ fitness = NoValue
    /\ legacy_fitness = NoValue

EncodingIdle ==
    /\ nested = <<>>
    /\ flat = <<>>

\* the frame of an operation that is not called
NotCalled == [called |-> FALSE]

DriversIdle ==
    /\ integrated_call = NotCalled
    /\ ga = NotCalled
    /\ first_pass = NotCalled

FramesIdle ==
    /\ evaluator_call = NotCalled
    /\ builder_call = NotCalled
    /\ crossover_call = NotCalled
    /\ selection_call = NotCalled
    /\ mutation_call = NotCalled
    /\ DriversIdle

----------------------------------------------------------------------------
(* Spec: one call of repair_chromosome *)

Init ==
    /\ chromosome \in Chromosomes
    /\ \E inst \in Instances :
          /\ dist_matrix = inst.dist_matrix
          /\ station_ids = inst.station_ids
          /\ battery_capacity = inst.battery_capacity
          /\ consumption_rate = inst.consumption_rate
    /\ routes = <<>>
    /\ r = 1
    /\ new_route = <<>>
    /\ current_node = None
    /\ current_battery = 0
    /\ i = 0
    /\ repaired_chromosome = <<>>
    /\ dead_end = FALSE
    /\ FitnessIdle
    /\ EncodingIdle
    /\ FramesIdle
    /\ pc = "parse"

Next ==
    \/ Parse
    \/ StartRoute
    \/ Travel
    \/ InsertStation
    \/ DeadEnd
    \/ EndRoute
    \/ Return

Spec == Init /\ [][Next]_vars

----------------------------------------------------------------------------
(* SpecTwice: repair_chromosome, then repair_chromosome on its result with
   the same distance matrix, stations, capacity and rate *)

\* the second call, made when the first returned without a dead end
RepairAgain ==
    /\ pc = "done"
    /\ ~dead_end
    /\ ~first_pass.called
    /\ first_pass' = [called |-> TRUE, chromosome |-> chromosome,
                      repaired_chromosome |-> repaired_chromosome]
    /\ chromosome' = repaired_chromosome
    /\ routes' = <<>>
    /\ r' = 1
    /\ new_route' = <<>>
    /\ current_node' = None
    /\ current_battery' = 0
    /\ i' = 0
    /\ repaired_chromosome' = <<>>
    /\ dead_end' = FALSE
    /\ pc' = "parse"
    /\ UNCHANGED <<battery_capacity, consumption_rate, repair_args, fitness_args,
                   fitness_results, encoding_results, evaluator_call, builder_call,
                   crossover_call, selection_call, mutation_call, integrated_call, ga>>

InitTwice ==
    /\ Init
    /\ chromosome \in WellFormedChromosomes

NextTwice ==
    \/ Next
    \/ RepairAgain

SpecTwice == InitTwice /\ [][NextTwice]_vars

----------------------------------------------------------------------------
(* SpecFitness: one call of each evaluator on the same chromosome *)

Restrict(f, S) == [x \in S |-> f[x]]

AllPairs == Nodes \X Nodes
LineEntries(pos) == [q \in AllPairs |-> Abs(pos[q[1]] - pos[q[2]])]

IdMatrix(f) == [given |-> TRUE, entries |-> f]
Coords(f) == [given |-> TRUE, entries |-> f]

\* which pairs the matrix of ga.evaluator lacks, its shape, and the
\* arguments of the legacy evaluator
Variants ==
    {[dropped |-> {}, shape |-> "nested",
      legacy_matrix |-> NotGiven, node_coords |-> NotGiven],
     [dropped |-> {}, shape |-> "tuple",
      legacy_matrix |-> IdMatrix((<<1, 2>> :> 1) @@ (<<2, 1>> :> 1)), node_coords |-> NotGiven],
     [dropped |-> {<<"D1", "C1">>}, shape |-> "tuple",
      legacy_matrix |-> IdMatrix(<<1, 2>> :> 2), node_coords |-> NotGiven],
     [dropped |-> {<<"D1", "C1">>}, shape |-> "nested",
      legacy_matrix |-> IdMatrix((<<2, 1>> :> 2) @@ (<<1, 1>> :> 1)), node_coords |-> NotGiven],
     [dropped |-> {<<"D1", "C1">>, <<"C1", "D1">>}, shape |-> "nested",
      legacy_matrix |-> IdMatrix(<<>>),
      node_coords |-> Coords((1 :> <<0, 0>>) @@ (2 :> <<0, 2>>))],
     [dropped |-> {<<"C1", "C2">>, <<"C2", "C1">>}, shape |-> "tuple",
      legacy_matrix |-> NotGiven, node_coords |-> Coords(1 :> <<0, 0>>)],
     [dropped |-> {<<"C1", "S1">>, <<"S1", "C1">>}, shape |-> "nested",
      legacy_matrix |-> IdMatrix((<<1, 2>> :> 1) @@ (<<2, 1>> :> 1)), node_coords |-> NotGiven],
     [dropped |-> AllPairs, shape |-> "tuple",
      legacy_matrix |-> NotGiven, node_coords |-> NotGiven]}

InitFitness ==
    /\ chromosome \in Chromosomes
    /\ battery_capacity \in 1..MaxCap
    /\ consumption_rate = 1
    /\ \E q \in (0..MaxPos) \X (0..MaxPos) \X (0..MaxPos), v \in Variants :
          /\ distance_matrix =
                [shape |-> v.shape,
                 entries |-> Restrict(LineEntries(Place(0, q[1], q[2], q[3], 0)),
                                      AllPairs \ v.dropped)]
          /\ legacy_matrix = v.legacy_matrix
          /\ node_coords = v.node_coords
    /\ fitness = NoValue
    /\ legacy_fitness = NoValue
    /\ RepairIdle
    /\ EncodingIdle
    /\ FramesIdle
    /\ pc = "evaluate"

Evaluate ==
    /\ pc = "evaluate"
    /\ fitness' = fitness_function(chromosome, distance_matrix, battery_capacity,
                                   consumption_rate, 1, W_DISTANCE, W_CHARGING)
    /\ pc' = "evaluate_legacy"
    /\ UNCHANGED <<chromosome, battery_capacity, consumption_rate, repair_args,
                   repair_locals, fitness_args, legacy_fitness, encoding_results, call_frames>>

EvaluateLegacy ==
    /\ pc = "evaluate_legacy"
    /\ legacy_fitness' = legacy_fitness_function(chromosome, legacy_matrix, node_coords,
                                                 battery_capacity, consumption_rate,
                                                 W_DISTANCE, W_CHARGING)
    /\ pc' = "scored"
    /\ UNCHANGED <<chromosome, battery_capacity, consumption_rate, repair_args,
                   repair_locals, fitness_args, fitness, encoding_results, call_frames>>

NextFitness ==
    \/ Evaluate
    \/ EvaluateLegacy

SpecFitness == InitFitness /\ [][NextFitness]_vars

----------------------------------------------------------------------------
(* SpecCompare: both evaluators called with the same distances *)

\* nodes whose integer ids (extract_id) are all different, so that a matrix
\* keyed by ids can carry the distance of every pair of names
ComparedNodes == {"D1", "S2", "C3", "C4"}
ComparedStops == {"S2", "C3", "C4"}
\* largest number of stops of a route given to both evaluators
MaxCompared == 3

ComparedMiddles(n) == UNION {[1..k -> ComparedStops] : k \in 0..n}

\* one route D1 ... D1, two routes of at most one stop each, and routes that
\* start or end at a station or a customer
ComparedChromosomes ==
    {DepotRoute(m) : m \in ComparedMiddles(MaxCompared)}
    \cup {DepotRoute(q[1]) \o <<"|">> \o DepotRoute(q[2]) :
            q \in ComparedMiddles(1) \X ComparedMiddles(1)}
    \cup {m \in ComparedMiddles(MaxCompared) : Len(m) >= 2}

ComparedEntries(pos) ==
    [q \in ComparedNodes \X ComparedNodes |-> Abs(pos[q[1]] - pos[q[2]])]

\* the matrix {(extract_id(a), extract_id(b)): d} of a matrix {(a, b): d}
ById(entries) ==
    LET id_pair(q) == <<extract_id(q[1]), extract_id(q[2])>>
    IN [p \in {id_pair(q) : q \in DOMAIN entries} |->
          entries[CHOOSE q \in DOMAIN entries : id_pair(q) = p]]

\* ways of giving fitness.fitness_function the distances of the matrix
\* `entries` over nodes at `pos`:
\*   "ids":    distance_matrix keyed by pairs of integer ids
\*   "coords": node_coords keyed by integer id, no distance_matrix
\*   "names":  the matrix of names itself, as main_integrated.py passes it;
\*             no pair of integer ids is a key of it
LegacyArguments(how, pos, entries) ==
    CASE how = "ids" ->
           [legacy_matrix |-> IdMatrix(ById(entries)), node_coords |-> NotGiven,
            shape |-> "tuple"]
      [] how = "coords" ->
           [legacy_matrix |-> NotGiven,
            node_coords |-> Coords([n \in {extract_id(a) : a \in ComparedNodes} |->
                                      <<pos[CHOOSE a \in ComparedNodes : extract_id(a) = n], 0>>]),
            shape |-> "tuple"]
      [] OTHER ->
           [legacy_matrix |-> IdMatrix(<<>>), node_coords |-> NotGiven,
            shape |-> "nested"]

InitCompare ==
    /\ chromosome \in ComparedChromosomes
    /\ battery_capacity \in 1..MaxCap
    /\ consumption_rate \in {1, 2}
    /\ \E q \in (0..MaxPos) \X (0..MaxPos) \X (0..MaxPos),
          how \in {"ids", "coords", "names"} :
          LET pos == [n \in ComparedNodes |->
                        CASE n = "D1" -> 0 [] n = "S2" -> q[1]
                          [] n = "C3" -> q[2] [] OTHER -> q[3]]
              given == LegacyArguments(how, pos, ComparedEntries(pos))
          IN /\ distance_matrix = [shape |-> given.shape, entries |-> ComparedEntries(pos)]
             /\ legacy_matrix = given.legacy_matrix
             /\ node_coords = given.node_coords
    /\ fitness = NoValue
    /\ legacy_fitness = NoValue
    /\ RepairIdle
    /\ EncodingIdle
    /\ FramesIdle
    /\ pc = "evaluate"

SpecCompare == InitCompare /\ [][NextFitness]_vars

\* the values `battery` takes after each hop of ga.evaluator.fitness_function,
\* from route ri (1-based), hop k (0-based) on, up to the hop at which the
\* function returns the sentinel
RECURSIVE batteries(_, _, _, _, _)
batteries(rs, ri, k, battery, cfg) ==
    IF ri > Len(rs) THEN <<>>
    ELSE IF k >= Len(rs[ri]) - 1
    THEN batteries(rs, ri + 1, 0, cfg.battery_capacity, cfg)
    ELSE
      LET a == rs[ri][k + 1]
          b == rs[ri][k + 2]
          dist == get_distance(a, b, cfg.matrix)
          needed_energy == dist * cfg.consumption_rate
          ahead == energy_needed_to_next(rs[ri], k, cfg.matrix, cfg.consumption_rate)
          charged == IF startswith(a, "S")
                     THEN Min(battery + Max(0, ahead - battery), cfg.battery_capacity)
                     ELSE battery
      IN IF dist = Inf \/ (startswith(a, "S") /\ ahead = Inf) \/ charged < needed_energy
         THEN <<>>
         ELSE <<charged - needed_energy>>
              \o batteries(rs, ri, k + 1, charged - needed_energy, cfg)

\* the values `battery` takes after each hop of fitness.fitness_function, up
\* to the hop at which the function returns invalid_penalty
RECURSIVE legacy_batteries(_, _, _, _, _)
legacy_batteries(rs, ri, k, battery, cfg) ==
    IF ri > Len(rs) THEN <<>>
    ELSE IF Len(rs[ri]) < 2 \/ k >= Len(rs[ri]) - 1
    THEN legacy_batteries(rs, ri + 1, 0, cfg.battery_capacity, cfg)
    ELSE
      LET cur == rs[ri][k + 1]
          nxt == rs[ri][k + 2]
          energy_needed == legacy_get_distance(cur, nxt, cfg.matrix, cfg.coords)
                           * cfg.consumption_rate
      IN IF startswith(nxt, "S")
         THEN <<cfg.battery_capacity>>
              \o legacy_batteries(rs, ri, k + 1, cfg.battery_capacity, cfg)
         ELSE IF battery < energy_needed
              THEN <<>>
              ELSE <<battery - energy_needed>>
                   \o legacy_batteries(rs, ri, k + 1, battery - energy_needed, cfg)

\* the two simulations of the call in the current state
lookahead_run ==
    batteries(split_routes(chromosome), 1, 0, battery_capacity,
              [matrix |-> distance_matrix, battery_capacity |-> battery_capacity,
               consumption_rate |-> consumption_rate])
legacy_run ==
    legacy_batteries(parse_routes(chromosome), 1, 0, battery_capacity,
                     [matrix |-> legacy_matrix, coords |-> node_coords,
                      battery_capacity |-> battery_capacity,
                      consumption_rate |-> consumption_rate])
hops_of(chrom) ==
    LET rs == split_routes(chrom)
        RECURSIVE count(_)
        count(ri) == IF ri > Len(rs) THEN 0 ELSE Max(Len(rs[ri]) - 1, 0) + count(ri + 1)
    IN count(1)

----------------------------------------------------------------------------
(* SpecEncoding: split_routes, then join_routes on its result *)

FlatChromosomes == UNION {[1..k -> {"D1", "C1", "C2", "|"}] : k \in 0..MaxFlat}

InitEncoding ==
    /\ chromosome \in FlatChromosomes
    /\ battery_capacity = 0
    /\ consumption_rate = 0
    /\ RepairIdle
    /\ FitnessIdle
    /\ EncodingIdle
    /\ FramesIdle
    /\ pc = "split"

Split ==
    /\ pc = "split"
    /\ nested' = split_routes(chromosome)
    /\ pc' = "join"
    /\ UNCHANGED <<chromosome, battery_capacity, consumption_rate, repair_args,
                   repair_locals, fitness_args, fitness_results, flat, call_frames>>

Join ==
    /\ pc = "join"
    /\ flat' = join_routes(nested)
    /\ pc' = "joined"
    /\ UNCHANGED <<chromosome, battery_capacity, consumption_rate, repair_args,
                   repair_locals, fitness_args, fitness_results, nested, call_frames>>

NextEncoding ==
    \/ Split
    \/ Join

SpecEncoding == InitEncoding /\ [][NextEncoding]_vars

----------------------------------------------------------------------------
(* SpecScore: ga.evaluator.fitness_function followed statement by statement *)

\* the frame of a call with the given charging rate and weights (in
\* tenths), before its first statement
EvaluatorFrame(cr, wd, wc) ==
    [called |-> TRUE, charging_rate |-> cr, w_distance |-> wd, w_charging |-> wc,
     routes |-> <<>>, r |-> 1, i |-> 0, battery |-> 0,
     total_distance |-> 0, total_required |-> 0]

\* `route`, `a`, `b`, `dist`, `needed_energy` of the running iteration
eval_route == evaluator_call.routes[evaluator_call.r]
eval_a == eval_route[evaluator_call.i + 1]
eval_b == eval_route[evaluator_call.i + 2]
eval_dist == get_distance(eval_a, eval_b, distance_matrix)
eval_needed_energy == eval_dist * consumption_rate

\* what a step of the evaluator leaves alone, besides its frame, fitness and pc
eval_unchanged ==
    <<chromosome, battery_capacity, consumption_rate, repair_args, repair_locals,
      fitness_args, legacy_fitness, encoding_results,
      builder_call, crossover_call, selection_call, mutation_call,
      driver_frames>>

\* return INFEASIBLE_PENALTY
EvalPenalty ==
    /\ fitness' = Value(INFEASIBLE_PENALTY, 1)
    /\ pc' = "scored"
    /\ UNCHANGED evaluator_call

\* total_distance = 0.0, total_charging_time = 0.0, routes = split_routes(chromosome)
EvalCall ==
    /\ pc = "simulate"
    /\ evaluator_call' = [evaluator_call EXCEPT !.routes = split_routes(chromosome),
                                                !.r = 1,
                                                !.total_distance = 0,
                                                !.total_required = 0]
    /\ pc' = "eval_route"
    /\ UNCHANGED <<eval_unchanged, fitness>>

\* for route in routes: battery = battery_capacity
EvalRoute ==
    /\ pc = "eval_route"
    /\ evaluator_call.r <= Len(evaluator_call.routes)
    /\ evaluator_call' = [evaluator_call EXCEPT !.battery = battery_capacity, !.i = 0]
    /\ pc' = "eval_hop"
    /\ UNCHANGED <<eval_unchanged, fitness>>

\* the hop's distance taken into total_distance only when the hop does not
\* leave from a station
EvalHopForgetsStationHops ==
    /\ pc = "eval_hop"
    /\ evaluator_call.i < Len(eval_route) - 1
    /\ IF eval_dist = Inf THEN EvalPenalty
       ELSE IF startswith(eval_a, "S")
       THEN LET ahead == energy_needed_to_next(eval_route, evaluator_call.i,
                                               distance_matrix, consumption_rate)
                required_energy == Max(0, ahead - evaluator_call.battery)
            IN IF ahead = Inf THEN EvalPenalty
               ELSE IF evaluator_call.charging_rate = 0
               THEN /\ fitness' = Raised("ZeroDivisionError")
                    /\ pc' = "scored"
                    /\ UNCHANGED evaluator_call
               ELSE /\ evaluator_call' =
                          [evaluator_call EXCEPT
                              !.total_required = @ + required_energy,
                              !.battery = Min(@ + required_energy, battery_capacity)]
                    /\ pc' = "eval_travel"
                    /\ UNCHANGED fitness
       ELSE /\ evaluator_call' = [evaluator_call EXCEPT !.total_distance = @ + eval_dist]
            /\ pc' = "eval_travel"
            /\ UNCHANGED fitness
    /\ UNCHANGED eval_unchanged

\* the station charging the battery to the capacity instead of to the
\* energy of the leg
EvalHopChargesFull ==
    /\ pc = "eval_hop"
    /\ evaluator_call.i < Len(eval_route) - 1
    /\ IF eval_dist = Inf THEN EvalPenalty
       ELSE IF startswith(eval_a, "S")
       THEN LET ahead == energy_needed_to_next(eval_route, evaluator_call.i,
                                               distance_matrix, consumption_rate)
                required_energy == battery_capacity - evaluator_call.battery
            IN IF ahead = Inf
               THEN /\ evaluator_call' =
                          [evaluator_call EXCEPT !.total_distance = @ + eval_dist]
                    /\ fitness' = Value(INFEASIBLE_PENALTY, 1)
                    /\ pc' = "scored"
               ELSE IF evaluator_call.charging_rate = 0
               THEN /\ evaluator_call' =
                          [evaluator_call EXCEPT !.total_distance = @ + eval_dist]
                    /\ fitness' = Raised("ZeroDivisionError")
                    /\ pc' = "scored"
               ELSE /\ evaluator_call' =
                          [evaluator_call EXCEPT
                              !.total_distance = @ + eval_dist,
                              !.total_required = @ + required_energy,
                              !.battery = battery_capacity]
                    /\ pc' = "eval_travel"
                    /\ UNCHANGED fitness
       ELSE /\ evaluator_call' = [evaluator_call EXCEPT !.total_distance = @ + eval_dist]
            /\ pc' = "eval_travel"
            /\ UNCHANGED fitness
    /\ UNCHANGED eval_unchanged

\* one iteration of the hop loop up to the battery check: the distance
\* lookup, total_distance += dist, and at a station the lookahead and the
\* top-up; the returns and the raise inside the station branch come after
\* the distance was added.  The charging time of the stop is
\* required_energy / charging_rate; total_required is the sum of the
\* required energies, total_charging_time is total_required / charging_rate.
EvalHop ==
    /\ pc = "eval_hop"
    /\ evaluator_call.i < Len(eval_route) - 1
    /\ IF eval_dist = Inf THEN EvalPenalty
       ELSE IF startswith(eval_a, "S")
       THEN LET ahead == energy_needed_to_next(eval_route, evaluator_call.i,
                                               distance_matrix, consumption_rate)
                required_energy == Max(0, ahead - evaluator_call.battery)
            IN IF ahead = Inf
               THEN /\ evaluator_call' =
                          [evaluator_call EXCEPT !.total_distance = @ + eval_dist]
                    /\ fitness' = Value(INFEASIBLE_PENALTY, 1)
                    /\ pc' = "scored"
               ELSE IF evaluator_call.charging_rate = 0
               THEN /\ evaluator_call' =
                          [evaluator_call EXCEPT !.total_distance = @ + eval_dist]
                    /\ fitness' = Raised("ZeroDivisionError")
                    /\ pc' = "scored"
               ELSE /\ evaluator_call' =
                          [evaluator_call EXCEPT
                              !.total_distance = @ + eval_dist,
                              !.total_required = @ + required_energy,
                              !.battery = Min(@ + required_energy, battery_capacity)]
                    /\ pc' = "eval_travel"
                    /\ UNCHANGED fitness
       ELSE /\ evaluator_call' = [evaluator_call EXCEPT !.total_distance = @ + eval_dist]
            /\ pc' = "eval_travel"
            /\ UNCHANGED fitness
    /\ UNCHANGED eval_unchanged

\* if battery < needed_energy: return INFEASIBLE_PENALTY; battery -= needed_energy
EvalTravel ==
    /\ pc = "eval_travel"
    /\ IF evaluator_call.battery < eval_needed_energy
       THEN EvalPenalty
       ELSE /\ evaluator_call' = [evaluator_call EXCEPT !.battery = @ - eval_needed_energy,
                                                        !.i = @ + 1]
            /\ pc' = "eval_hop"
            /\ UNCHANGED fitness
    /\ UNCHANGED eval_unchanged

\* the hop loop of a route is exhausted
EvalRouteEnd ==
    /\ pc = "eval_hop"
    /\ ~(evaluator_call.i < Len(eval_route) - 1)
    /\ evaluator_call' = [evaluator_call EXCEPT !.r = @ + 1]
    /\ pc' = "eval_route"
    /\ UNCHANGED <<eval_unchanged, fitness>>

\* D = total_distance / 100, C = total_charging_time / 100,
\* return w_distance * D + w_charging * C
EvalReturn ==
    /\ pc = "eval_route"
    /\ evaluator_call.r > Len(evaluator_call.routes)
    /\ fitness' = score(evaluator_call.w_distance, evaluator_call.w_charging,
                        evaluator_call.total_distance, evaluator_call.total_required,
                        evaluator_call.charging_rate)
    /\ pc' = "scored"
    /\ UNCHANGED <<eval_unchanged, evaluator_call>>

NextEvaluator ==
    \/ EvalCall
    \/ EvalRoute
    \/ EvalHop
    \/ EvalTravel
    \/ EvalRouteEnd
    \/ EvalReturn

\* charging rates and weight pairs (in tenths) of the explored calls
Rates == {0 - 1, 0, 1, 2, 3}
Weights == {<<W_DISTANCE, W_CHARGING>>, <<3, 7>>}

\* chromosomes with routes of fewer than two nodes
ShortRouteChromosomes ==
    {<<>>, <<"D1">>, <<"S1">>, <<"S1", "|", "D1", "S1", "C1", "D1">>,
     <<"D1", "C1", "D1", "|", "C1">>, <<"S1", "C1">>, <<"S1", "S1", "C1", "D1">>}

InitScore ==
    /\ chromosome \in WellFormedChromosomes \cup ShortRouteChromosomes
    /\ battery_capacity \in 1..MaxCap
    /\ consumption_rate = 1
    /\ \E q \in (0..MaxPos) \X (0..MaxPos) \X (0..MaxPos) :
          distance_matrix = [shape |-> "tuple",
                             entries |-> LineEntries(Place(0, q[1], q[2], q[3], 0))]
    /\ legacy_matrix = NotGiven
    /\ node_coords = NotGiven
    /\ fitness = NoValue
    /\ legacy_fitness = NoValue
    /\ \E cr \in Rates, w \in Weights : evaluator_call = EvaluatorFrame(cr, w[1], w[2])
    /\ builder_call = NotCalled
    /\ crossover_call = NotCalled
    /\ selection_call = NotCalled
    /\ mutation_call = NotCalled
    /\ DriversIdle
    /\ RepairIdle
    /\ EncodingIdle
    /\ pc = "simulate"

SpecScore == InitScore /\ [][NextEvaluator]_vars

----------------------------------------------------------------------------
(* SpecBattery: a call of repair_chromosome or of the evaluator on the same
   arguments, the evaluator with its default rate and weights *)

\* instances that offer the station S1
StationInstances ==
    {inst \in Instances : inst.station_ids = <<"S1">>}

InitBattery ==
    /\ chromosome \in Chromosomes
    /\ \E inst \in StationInstances :
          /\ dist_matrix = inst.dist_matrix
          /\ station_ids = inst.station_ids
          /\ battery_capacity = inst.battery_capacity
          /\ consumption_rate = inst.consumption_rate
          /\ distance_matrix = Nested(inst.dist_matrix)
    /\ routes = <<>>
    /\ r = 1
    /\ new_route = <<>>
    /\ current_node = None
    /\ current_battery = 0
    /\ i = 0
    /\ repaired_chromosome = <<>>
    /\ dead_end = FALSE
    /\ legacy_matrix = NotGiven
    /\ node_coords = NotGiven
    /\ fitness = NoValue
    /\ legacy_fitness = NoValue
    /\ evaluator_call = EvaluatorFrame(1, W_DISTANCE, W_CHARGING)
    /\ builder_call = NotCalled
    /\ crossover_call = NotCalled
    /\ selection_call = NotCalled
    /\ mutation_call = NotCalled
    /\ DriversIdle
    /\ EncodingIdle
    /\ pc \in {"parse", "simulate"}

NextBattery ==
    \/ Parse
    \/ StartRoute
    \/ Travel
    \/ InsertStation
    \/ DeadEnd
    \/ EndRoute
    \/ Return
    \/ EvalCall
    \/ EvalRoute
    \/ EvalHop
    \/ EvalTravel
    \/ EvalRouteEnd
    \/ EvalReturn

SpecBattery == InitBattery /\ [][NextBattery]_vars

----------------------------------------------------------------------------
(* SpecMatrix: the three distance matrix builders on the same nodes *)

\* largest number of nodes given to the matrix builders
MaxNodes == 3

\* position of the key `id` in a dict given as the sequence of its items
\* [id, xy], in insertion order
index_of(items, id) == CHOOSE k \in 1..Len(items) : items[k].id = id
keys(items) == {items[k].id : k \in 1..Len(items)}
item(items, id) == items[index_of(items, id)].xy

\* utils.build_distance_matrix(nodes, symmetric): for each a, each later b
\* gets dist[(a, b)] = d and, when symmetric, dist[(b, a)] = d; then
\* dist[(a, a)] = 0.0
build_distance_matrix(nodes, symmetric) ==
    LET later == {p \in keys(nodes) \X keys(nodes) :
                     index_of(nodes, p[1]) < index_of(nodes, p[2])}
        earlier == {<<p[2], p[1]>> : p \in later}
        self == {<<a, a>> : a \in keys(nodes)}
    IN [shape |-> "tuple",
        entries |->
            [p \in later \cup self \cup (IF symmetric THEN earlier ELSE {}) |->
                IF p[1] = p[2] THEN 0
                ELSE IF p \in later THEN euclid(item(nodes, p[1]), item(nodes, p[2]))
                ELSE euclid(item(nodes, p[2]), item(nodes, p[1]))]]

\* main_integrated.build_distance_matrix(coords): dist_matrix[i][j] for all
\* i, j, 0.0 when i == j
integrated_build_distance_matrix(coords) ==
    [a \in keys(coords) |->
        [b \in keys(coords) |->
            IF a = b THEN 0 ELSE euclid(item(coords, a), item(coords, b))]]

\* utlis.calculate_distance_matrix(node_coords): for each node_a, each later
\* node_b gets both (node_a, node_b) and (node_b, node_a)
calculate_distance_matrix(coords) ==
    LET later == {p \in keys(coords) \X keys(coords) :
                     index_of(coords, p[1]) < index_of(coords, p[2])}
    IN [p \in later \cup {<<q[2], q[1]>> : q \in later} |->
            IF p \in later THEN euclid(item(coords, p[1]), item(coords, p[2]))
            ELSE euclid(item(coords, p[2]), item(coords, p[1]))]

builder_unchanged ==
    <<chromosome, battery_capacity, consumption_rate, repair_args, repair_locals,
      fitness_args, fitness_results, encoding_results,
      evaluator_call, crossover_call, selection_call, mutation_call,
      driver_frames>>

BuildUtils ==
    /\ pc = "build"
    /\ builder_call' = [builder_call EXCEPT
                           !.dist = build_distance_matrix(builder_call.nodes,
                                                          builder_call.symmetric)]
    /\ pc' = "build_integrated"
    /\ UNCHANGED builder_unchanged

BuildIntegrated ==
    /\ pc = "build_integrated"
    /\ builder_call' = [builder_call EXCEPT
                           !.dist_matrix = integrated_build_distance_matrix(builder_call.nodes)]
    /\ pc' = "build_utlis"
    /\ UNCHANGED builder_unchanged

BuildUtlis ==
    /\ pc = "build_utlis"
    /\ builder_call' = [builder_call EXCEPT
                           !.distance_matrix = calculate_distance_matrix(builder_call.nodes)]
    /\ pc' = "built"
    /\ UNCHANGED builder_unchanged

\* coordinates whose mutual distances are integers
Points == {<<0, 0>>, <<3, 0>>, <<0, 4>>, <<3, 4>>}

\* dicts of up to MaxNodes nodes, in every insertion order
NodeDicts ==
    UNION {{d \in [1..n -> [id : {"D1", "C1", "C2", "S1"}, xy : Points]] :
               \A j, k \in 1..n : j # k => d[j].id # d[k].id} : n \in 0..MaxNodes}

InitMatrix ==
    /\ chromosome = <<>>
    /\ battery_capacity = 0
    /\ consumption_rate = 0
    /\ RepairIdle
    /\ FitnessIdle
    /\ EncodingIdle
    /\ evaluator_call = NotCalled
    /\ \E d \in NodeDicts, sym \in BOOLEAN :
          builder_call = [called |-> TRUE, nodes |-> d, symmetric |-> sym,
                          dist |-> NoMatrix, dist_matrix |-> <<>>, distance_matrix |-> <<>>]
    /\ crossover_call = NotCalled
    /\ selection_call = NotCalled
    /\ mutation_call = NotCalled
    /\ DriversIdle
    /\ pc = "build"

NextMatrix ==
    \/ BuildUtils
    \/ BuildIntegrated
    \/ BuildUtlis

SpecMatrix == InitMatrix /\ [][NextMatrix]_vars

----------------------------------------------------------------------------
(* SpecJoin: join_routes on any list of routes *)

\* largest number of routes given to join_routes
MaxRoutes == 3

\* lists of routes, empty routes included
RouteLists ==
    UNION {[1..n -> {<<>>, <<"D1">>, <<"C1">>, <<"D1", "C1", "D1">>}] : n \in 0..MaxRoutes}

InitJoin ==
    /\ chromosome = <<>>
    /\ battery_capacity = 0
    /\ consumption_rate = 0
    /\ RepairIdle
    /\ FitnessIdle
    /\ nested \in RouteLists
    /\ flat = <<>>
    /\ FramesIdle
    /\ pc = "join"

SpecJoin == InitJoin /\ [][Join]_vars

----------------------------------------------------------------------------
(* crossover.py and ga/operators.py: bcrc_crossover *)

\* Python floats as the insertion costs need them: a finite value, +inf,
\* -inf or nan
Fin(n) == [kind |-> "fin", v |-> n]
PosInf == [kind |-> "inf", v |-> 0]
NegInf == [kind |-> "-inf", v |-> 0]
NaN == [kind |-> "nan", v |-> 0]

\* the float of a looked-up distance (Inf is float('inf'))
float(d) == IF d = Inf THEN PosInf ELSE Fin(d)

\* x + y for distances (neither is -inf or nan)
float_add(x, y) ==
    IF x.kind = "inf" \/ y.kind = "inf" THEN PosInf ELSE Fin(x.v + y.v)

\* x - y for distances: inf - inf is nan
float_sub(x, y) ==
    CASE x.kind = "inf" /\ y.kind = "inf" -> NaN
      [] x.kind = "inf"                   -> PosInf
      [] y.kind = "inf"                   -> NegInf
      [] OTHER                            -> Fin(x.v - y.v)

\* x < y; every comparison with nan is False
float_lt(x, y) ==
    CASE x.kind = "nan" \/ y.kind = "nan" -> FALSE
      [] x.kind = "inf"                   -> FALSE
      [] x.kind = "-inf"                  -> y.kind # "-inf"
      [] OTHER                            -> y.kind = "inf" \/ (y.kind = "fin" /\ x.v < y.v)

\* best_pos = None, best_route_idx = None
NoPos == 0 - 1

\* list.insert(pos, x) for 0 <= pos <= len
insert(rt, pos, x) == SubSeq(rt, 1, pos) \o <<x>> \o SubSeq(rt, pos + 1, Len(rt))

\* crossover.split_routes: cut at every "|", empty routes kept
RECURSIVE crossover_split_from(_, _, _, _)
crossover_split_from(chrom, k, acc, cur) ==
    IF k > Len(chrom) THEN Append(acc, cur)
    ELSE IF chrom[k] = "|"
         THEN crossover_split_from(chrom, k + 1, Append(acc, cur), <<>>)
         ELSE crossover_split_from(chrom, k + 1, acc, Append(cur, chrom[k]))

crossover_split_routes(chrom) == crossover_split_from(chrom, 1, <<>>, <<>>)

\* routes that keep the drawn customer
keep_customer_routes(rs, customer) == rs

\* remove_customer_routes (the same in both modules)
remove_customer_routes(rs, customer) ==
    [k \in 1..Len(rs) |-> SelectSeq(rs[k], LAMBDA x : x # customer)]

\* crossover.get_distance: dist_dict[a][b], then dist_dict[b][a], then
\* float("inf"); a gene is never a key of a tuple-keyed dict
crossover_get_distance(a, b, dist_dict) ==
    IF dist_dict.shape = "tuple" THEN Inf
    ELSE IF <<a, b>> \in DOMAIN dist_dict.entries THEN dist_dict.entries[<<a, b>>]
    ELSE IF <<b, a>> \in DOMAIN dist_dict.entries THEN dist_dict.entries[<<b, a>>]
    ELSE Inf

\* the loop of crossover.insertion_cost from index k (0-based) on
RECURSIVE insertion_scan(_, _, _, _, _, _)
insertion_scan(rt, customer, dist_dict, k, best_cost, best_pos) ==
    IF k >= Len(rt) - 1 THEN [cost |-> best_cost, pos |-> best_pos]
    ELSE LET a == rt[k + 1]
             b == rt[k + 2]
             cost_before == float(crossover_get_distance(a, b, dist_dict))
             cost_after == float_add(float(crossover_get_distance(a, customer, dist_dict)),
                                     float(crossover_get_distance(customer, b, dist_dict)))
             delta == float_sub(cost_after, cost_before)
         IN IF float_lt(delta, best_cost)
            THEN insertion_scan(rt, customer, dist_dict, k + 1, delta, k + 1)
            ELSE insertion_scan(rt, customer, dist_dict, k + 1, best_cost, best_pos)

\* crossover.insertion_cost
insertion_cost(rt, customer, dist_dict) ==
    IF Len(rt) < 2 THEN [cost |-> Fin(0), pos |-> 0]
    ELSE insertion_scan(rt, customer, dist_dict, 0, PosInf, NoPos)

\* the loop of ga.operators.insertion_cost, with utils.get_distance
RECURSIVE ga_insertion_scan(_, _, _, _, _, _)
ga_insertion_scan(rt, customer, dist, k, best_cost, best_pos) ==
    IF k >= Len(rt) - 1 THEN [cost |-> best_cost, pos |-> best_pos]
    ELSE LET a == rt[k + 1]
             b == rt[k + 2]
             cost_before == float(get_distance(a, b, dist))
             cost_after == float_add(float(get_distance(a, customer, dist)),
                                     float(get_distance(customer, b, dist)))
             delta == float_sub(cost_after, cost_before)
         IN IF float_lt(delta, best_cost)
            THEN ga_insertion_scan(rt, customer, dist, k + 1, delta, k + 1)
            ELSE ga_insertion_scan(rt, customer, dist, k + 1, best_cost, best_pos)

\* ga.operators.insertion_cost
ga_insertion_cost(rt, customer, dist) ==
    IF Len(rt) < 2 THEN [cost |-> Fin(0), pos |-> 0]
    ELSE ga_insertion_scan(rt, customer, dist, 0, PosInf, 0)

\* the search for the best insertion over the routes from idx (1-based) on;
\* costs[idx] is what insertion_cost returns for route idx
RECURSIVE best_insertion(_, _, _, _)
best_insertion(child_routes, costs, idx, best) ==
    IF idx > Len(child_routes) THEN best
    ELSE IF Len(child_routes[idx]) < 2
         THEN best_insertion(child_routes, costs, idx + 1, best)
         ELSE IF float_lt(costs[idx].cost, best.cost)
              THEN best_insertion(child_routes, costs, idx + 1,
                                  [cost |-> costs[idx].cost, route_idx |-> idx,
                                   insert_pos |-> costs[idx].pos])
              ELSE best_insertion(child_routes, costs, idx + 1, best)

\* step 4 of bcrc_crossover: insert at the best position, else at index 1
\* of the first route with at least two nodes
insert_customer(child_routes, customer, best) ==
    IF best.route_idx # NoPos
    THEN [child_routes EXCEPT ![best.route_idx] = insert(@, best.insert_pos, customer)]
    ELSE LET long == {k \in 1..Len(child_routes) : Len(child_routes[k]) >= 2}
         IN IF long = {} THEN child_routes
            ELSE LET first == CHOOSE k \in long : \A k2 \in long : k <= k2
                 IN [child_routes EXCEPT ![first] = insert(@, 1, customer)]

\* the customers of the first parent, from which random.choice draws
all_customers(rs) ==
    {rs[k][j] : <<k, j>> \in {q \in (1..Len(rs)) \X (1..MaxNewRoute) :
                                 q[2] <= Len(rs[q[1]]) /\ startswith(rs[q[1]][q[2]], "C")}}

\* crossover.bcrc_crossover with `customer` the customer drawn (None when
\* the first parent has no customer); a raised TypeError is reported as
\* <<"TypeError">>
bcrc_crossover(chrom1, chrom2, dist_dict, customer) ==
    IF all_customers(crossover_split_routes(chrom1)) = {} THEN chrom2
    ELSE LET child_routes == remove_customer_routes(crossover_split_routes(chrom2), customer)
             costs == [k \in 1..Len(child_routes) |->
                          insertion_cost(child_routes[k], customer, dist_dict)]
             best == best_insertion(child_routes, costs, 1,
                                    [cost |-> PosInf, route_idx |-> NoPos, insert_pos |-> NoPos])
         IN IF best.route_idx # NoPos /\ best.insert_pos = NoPos
            THEN <<"TypeError">>
            ELSE join_routes(insert_customer(child_routes, customer, best))

\* ga.operators.bcrc_crossover likewise, with utils.split_routes and
\* utils.get_distance
ga_bcrc_crossover(chrom1, chrom2, dist, customer) ==
    IF all_customers(split_routes(chrom1)) = {} THEN chrom2
    ELSE LET child_routes == remove_customer_routes(split_routes(chrom2), customer)
             costs == [k \in 1..Len(child_routes) |->
                          ga_insertion_cost(child_routes[k], customer, dist)]
             best == best_insertion(child_routes, costs, 1,
                                    [cost |-> PosInf, route_idx |-> NoPos, insert_pos |-> NoPos])
         IN join_routes(insert_customer(child_routes, customer, best))

crossover_unchanged ==
    <<chromosome, battery_capacity, consumption_rate, repair_args, repair_locals,
      fitness_args, fitness_results, encoding_results,
      evaluator_call, builder_call, selection_call, mutation_call,
      driver_frames>>

\* the customers random.choice can return, None when there is none
draws(chrom) ==
    IF all_customers(split_routes(chrom)) = {} THEN {None}
    ELSE all_customers(split_routes(chrom))

\* a call of crossover.bcrc_crossover
Bcrc ==
    /\ pc = "crossover"
    /\ \E customer \in draws(crossover_call.chrom1) :
          crossover_call' =
              [crossover_call EXCEPT
                  !.customer = customer,
                  !.child = bcrc_crossover(crossover_call.chrom1, crossover_call.chrom2,
                                           crossover_call.dist, customer)]
    /\ pc' = "crossover_ga"
    /\ UNCHANGED crossover_unchanged

\* a call of ga.operators.bcrc_crossover on the same parents
GaBcrc ==
    /\ pc = "crossover_ga"
    /\ \E customer \in draws(crossover_call.chrom1) :
          crossover_call' =
              [crossover_call EXCEPT
                  !.ga_customer = customer,
                  !.ga_child = ga_bcrc_crossover(crossover_call.chrom1, crossover_call.chrom2,
                                                 crossover_call.dist, customer)]
    /\ pc' = "crossed"
    /\ UNCHANGED crossover_unchanged

\* distance matrices given to the crossover: complete on a line, without
\* the pairs of C1, without the pairs of the depot, and empty
CrossoverMatrices ==
    LET line1 == LineEntries(Place(0, 1, 2, 1, 0))
        line2 == LineEntries(Place(0, 2, 2, 0, 0))
    IN {[shape |-> "nested", entries |-> line1],
        [shape |-> "nested", entries |-> line2],
        [shape |-> "nested",
         entries |-> Restrict(line1, {q \in AllPairs : q[1] # "C1" /\ q[2] # "C1"})],
        [shape |-> "nested",
         entries |-> Restrict(line2, {q \in AllPairs : q[1] # "D1" /\ q[2] # "D1"})],
        [shape |-> "tuple", entries |-> line1],
        [shape |-> "tuple", entries |-> <<>>]}

\* parents: the well-formed chromosomes, and some that are not
Parents ==
    WellFormedChromosomes
    \cup {<<>>, <<"C1">>, <<"D1", "C1">>, <<"|", "D1", "C1", "D1">>,
          <<"D1", "|", "D1", "C1", "C2", "D1">>, <<"D1", "C2", "D1", "|", "D1", "|", "D1", "C1", "D1">>}

InitCrossover ==
    /\ chromosome = <<>>
    /\ battery_capacity = 0
    /\ consumption_rate = 0
    /\ RepairIdle
    /\ FitnessIdle
    /\ EncodingIdle
    /\ evaluator_call = NotCalled
    /\ builder_call = NotCalled
    /\ \E p1 \in Parents, p2 \in Parents, m \in CrossoverMatrices :
          crossover_call = [called |-> TRUE, chrom1 |-> p1, chrom2 |-> p2, dist |-> m,
                            customer |-> None, child |-> <<>>,
                            ga_customer |-> None, ga_child |-> <<>>]
    /\ selection_call = NotCalled
    /\ mutation_call = NotCalled
    /\ DriversIdle
    /\ pc = "crossover"

NextCrossover ==
    \/ Bcrc
    \/ GaBcrc

SpecCrossover == InitCrossover /\ [][NextCrossover]_vars

----------------------------------------------------------------------------
(* ga/operators.py and selection.py: selection *)

\* largest population
MaxPop == 3

\* largest tournament size
MaxTournament == 4

\* None in a list of parents
NoIndividual == <<"None">>

\* position (0-based) of index k in the stable ascending sort by score
rank(fitness_scores, k) ==
    Cardinality({j \in 1..Len(fitness_scores) :
                    \/ fitness_scores[j] < fitness_scores[k]
                    \/ (fitness_scores[j] = fitness_scores[k] /\ j < k)})

\* the population sorted by score, ties in population order
sorted_population(population, fitness_scores) ==
    [p \in 1..Len(population) |->
        population[CHOOSE k \in 1..Len(population) : rank(fitness_scores, k) = p - 1]]

\* get_elites (the same in both modules), for elite_size >= 0
get_elites(population, fitness_scores, elite_size) ==
    SubSeq(sorted_population(population, fitness_scores), 1,
           Min(elite_size, Len(population)))

\* random.sample(range(n), k) for 0 <= k <= n: k distinct indices in any order
sample(n, k) ==
    {ix \in [1..k -> 1..n] : \A x, y \in 1..k : x # y => ix[x] # ix[y]}

\* random.choices(range(n), k=k): k indices, repetitions allowed
choices(n, k) == [1..k -> 1..n]

\* the loop of a tournament over the drawn indices from position k on
RECURSIVE tournament_from(_, _, _, _, _, _)
tournament_from(population, fitness_scores, indices, k, best, best_score) ==
    IF k > Len(indices) THEN best
    ELSE IF best_score = Inf \/ fitness_scores[indices[k]] < best_score
         THEN tournament_from(population, fitness_scores, indices, k + 1,
                              population[indices[k]], fitness_scores[indices[k]])
         ELSE tournament_from(population, fitness_scores, indices, k + 1, best, best_score)

\* the winner of a tournament among the drawn indices, None for no index
tournament_winner(population, fitness_scores, indices) ==
    tournament_from(population, fitness_scores, indices, 1, NoIndividual, Inf)

selection_unchanged ==
    <<chromosome, battery_capacity, consumption_rate, repair_args, repair_locals,
      fitness_args, fitness_results, encoding_results,
      evaluator_call, builder_call, crossover_call, mutation_call,
      driver_frames>>

\* ga.operators.selection: the elites, and the number of tournaments
GaElites ==
    /\ pc = "select"
    /\ selection_call' =
          [selection_call EXCEPT
              !.parents = get_elites(selection_call.population,
                                     selection_call.fitness_scores,
                                     selection_call.elite_size),
              !.remaining = Len(selection_call.population) - selection_call.elite_size]
    /\ pc' = "ga_tournament"
    /\ UNCHANGED selection_unchanged

\* ga.operators.tournament_selection, once per remaining slot;
\* random.sample raises ValueError for a negative sample size
GaTournament ==
    /\ pc = "ga_tournament"
    /\ selection_call.remaining > 0
    /\ LET n == Len(selection_call.population)
           k == Min(selection_call.tournament_size, n)
       IN IF k < 0
          THEN /\ selection_call' = [selection_call EXCEPT !.ga_status = "ValueError"]
               /\ pc' = "elitism"
          ELSE /\ \E indices \in sample(n, k) :
                     selection_call' =
                         [selection_call EXCEPT
                             !.parents = Append(@, tournament_winner(
                                                       selection_call.population,
                                                       selection_call.fitness_scores,
                                                       indices)),
                             !.remaining = @ - 1]
               /\ pc' = "ga_tournament"
    /\ UNCHANGED selection_unchanged

\* ga.operators.selection returns parents
GaSelected ==
    /\ pc = "ga_tournament"
    /\ selection_call.remaining <= 0
    /\ selection_call' = [selection_call EXCEPT !.ga_status = "returned"]
    /\ pc' = "elitism"
    /\ UNCHANGED selection_unchanged

\* selection.selection: validation, clamped elite_size, elitism
Elitism ==
    /\ pc = "elitism"
    /\ LET n == Len(selection_call.population)
           elite_size == Max(0, Min(selection_call.elite_size, n))
       IN IF n = 0
          THEN /\ selection_call' = [selection_call EXCEPT !.status = "returned"]
               /\ pc' = "selected"
          ELSE IF Len(selection_call.fitness_scores) # n
          THEN /\ selection_call' = [selection_call EXCEPT !.status = "ValueError"]
               /\ pc' = "selected"
          ELSE /\ selection_call' =
                     [selection_call EXCEPT
                         !.new_parents = get_elites(selection_call.population,
                                                    selection_call.fitness_scores,
                                                    elite_size),
                         !.num_to_select = n - elite_size]
               /\ pc' = "tournament"
    /\ UNCHANGED selection_unchanged

\* selection.run_tournament, once per remaining slot: a sample without
\* replacement when tournament_size <= n, with replacement otherwise; a
\* parent that is None is skipped
Tournament ==
    /\ pc = "tournament"
    /\ selection_call.num_to_select > 0
    /\ LET n == Len(selection_call.population)
           tournament_size == selection_call.tournament_size
       IN IF tournament_size < 0
          THEN /\ selection_call' = [selection_call EXCEPT !.status = "ValueError"]
               /\ pc' = "selected"
          ELSE /\ \E indices \in IF tournament_size <= n THEN sample(n, tournament_size)
                                 ELSE choices(n, tournament_size) :
                     LET parent == tournament_winner(selection_call.population,
                                                     selection_call.fitness_scores, indices)
                     IN selection_call' =
                            [selection_call EXCEPT
                                !.new_parents = IF parent = NoIndividual THEN @
                                                ELSE Append(@, parent),
                                !.num_to_select = @ - 1]
               /\ pc' = "tournament"
    /\ UNCHANGED selection_unchanged

\* selection.selection returns new_parents
Selected ==
    /\ pc = "tournament"
    /\ selection_call.num_to_select <= 0
    /\ selection_call' = [selection_call EXCEPT !.status = "returned"]
    /\ pc' = "selected"
    /\ UNCHANGED selection_unchanged

\* individuals and scores of the explored populations
Individuals == {<<"D1", "C1", "D1">>, <<"D1", "C1", "C2", "D1">>}
Scores == {5, 7, 10}

SelectionFrames ==
    {[called |-> TRUE, population |-> q[1], fitness_scores |-> q[2],
      elite_size |-> e, tournament_size |-> t,
      parents |-> <<>>, remaining |-> 0, ga_status |-> "running",
      new_parents |-> <<>>, num_to_select |-> 0, status |-> "running"] :
        q \in UNION {[1..n -> Individuals] \X [1..n -> Scores] : n \in 0..MaxPop},
        e \in 0..MaxPop, t \in (0 - 1)..MaxTournament}

InitSelection ==
    /\ chromosome = <<>>
    /\ battery_capacity = 0
    /\ consumption_rate = 0
    /\ RepairIdle
    /\ FitnessIdle
    /\ EncodingIdle
    /\ evaluator_call = NotCalled
    /\ builder_call = NotCalled
    /\ crossover_call = NotCalled
    /\ selection_call \in SelectionFrames
    /\ mutation_call = NotCalled
    /\ DriversIdle
    /\ pc = "select"

NextSelection ==
    \/ GaElites
    \/ GaTournament
    \/ GaSelected
    \/ Elitism
    \/ Tournament
    \/ Selected

SpecSelection == InitSelection /\ [][NextSelection]_vars

----------------------------------------------------------------------------
(* mutation.py: reassign_customer_to_depot *)

\* a route dict of extract_routes
RouteDict(current_route) ==
    [depot |-> current_route[1],
     customers |-> SubSeq(current_route, 2, Len(current_route) - 1),
     full_route |-> current_route]

\* the test extract_routes makes before it keeps a route
is_depot_route(current_route) ==
    /\ Len(current_route) >= 2
    /\ startswith(current_route[1], "D")
    /\ startswith(current_route[Len(current_route)], "D")

\* the loop of extract_routes from gene k on
RECURSIVE extract_from(_, _, _, _)
extract_from(chrom, k, rts, current_route) ==
    IF k > Len(chrom)
    THEN IF current_route # <<>> /\ is_depot_route(current_route)
         THEN Append(rts, RouteDict(current_route)) ELSE rts
    ELSE IF chrom[k] = "|"
         THEN IF current_route # <<>>
              THEN extract_from(chrom, k + 1,
                                IF is_depot_route(current_route)
                                THEN Append(rts, RouteDict(current_route)) ELSE rts,
                                <<>>)
              ELSE extract_from(chrom, k + 1, rts, current_route)
         ELSE extract_from(chrom, k + 1, rts, Append(current_route, chrom[k]))

\* mutation.extract_routes
extract_routes(chrom) == extract_from(chrom, 1, <<>>, <<>>)

\* mutation.rebuild_chromosome_from_routes
RECURSIVE rebuild_from(_, _, _)
rebuild_from(rts, k, chrom) ==
    IF k > Len(rts) THEN chrom
    ELSE rebuild_from(rts, k + 1,
                      chrom \o rts[k].full_route
                            \o (IF k < Len(rts) THEN <<"|">> ELSE <<>>))

rebuild_chromosome_from_routes(rts) == rebuild_from(rts, 1, <<>>)

\* a removal that removes nothing
remove_nothing(seq, x) == seq

\* list.remove(x): without the first occurrence of x (x occurs in seq)
remove(seq, x) ==
    LET first == CHOOSE k \in 1..Len(seq) :
                    seq[k] = x /\ \A k2 \in 1..(k - 1) : seq[k2] # x
    IN SubSeq(seq, 1, first - 1) \o SubSeq(seq, first + 1, Len(seq))

\* [depot] + customers + [depot]
closed_route(rt) == <<rt.depot>> \o rt.customers \o <<rt.depot>>

\* step 1: the customer leaves the first route of old_depot that holds it
remove_from_old(rts, customer, old_depot) ==
    LET holds == {k \in 1..Len(rts) :
                     /\ rts[k].depot = old_depot
                     /\ \E j \in 1..Len(rts[k].customers) : rts[k].customers[j] = customer}
    IN IF holds = {} THEN rts
       ELSE LET k == CHOOSE x \in holds : \A y \in holds : x <= y
                left == remove(rts[k].customers, customer)
                emptied == [rts[k] EXCEPT !.customers = left]
            IN [rts EXCEPT ![k] = IF left # <<>>
                                  THEN [emptied EXCEPT !.full_route = closed_route(emptied)]
                                  ELSE emptied]

\* step 3: the customer joins the first route of new_depot at insert_pos,
\* or a new route of new_depot
add_to_new(rts, customer, new_depot, insert_pos) ==
    LET targets == {k \in 1..Len(rts) : rts[k].depot = new_depot}
    IN IF targets = {}
       THEN Append(rts, [depot |-> new_depot, customers |-> <<customer>>,
                         full_route |-> <<new_depot, customer, new_depot>>])
       ELSE LET k == CHOOSE x \in targets : \A y \in targets : x <= y
                joined == [rts[k] EXCEPT
                              !.customers = IF @ # <<>> THEN insert(@, insert_pos, customer)
                                            ELSE Append(@, customer)]
            IN [rts EXCEPT ![k] = [joined EXCEPT !.full_route = closed_route(joined)]]

\* the positions random.randint(0, len(customers)) can return for the
\* target route, 0 when there is no draw
insert_positions(rts, new_depot) ==
    LET targets == {k \in 1..Len(rts) : rts[k].depot = new_depot}
    IN IF targets = {} THEN {0}
       ELSE 0..Len(rts[CHOOSE x \in targets : \A y \in targets : x <= y].customers)

\* the routes after steps 1 and 2: the customer removed, empty routes dropped
remaining_routes(chrom, customer, old_depot) ==
    SelectSeq(remove_from_old(extract_routes(chrom), customer, old_depot),
              LAMBDA rt : rt.customers # <<>>)

\* mutation.reassign_customer_to_depot with insert_pos the position drawn
reassign_customer_to_depot(chrom, customer, old_depot, new_depot, insert_pos) ==
    rebuild_chromosome_from_routes(
        add_to_new(remaining_routes(chrom, customer, old_depot),
                   customer, new_depot, insert_pos))

mutation_unchanged ==
    <<chromosome, battery_capacity, consumption_rate, repair_args, repair_locals,
      fitness_args, fitness_results, encoding_results,
      evaluator_call, builder_call, crossover_call, selection_call,
      driver_frames>>

\* a call of reassign_customer_to_depot
Reassign ==
    /\ pc = "reassign"
    /\ \E insert_pos \in insert_positions(
                             remaining_routes(mutation_call.chromosome,
                                              mutation_call.customer,
                                              mutation_call.old_depot),
                             mutation_call.new_depot) :
          mutation_call' =
              [mutation_call EXCEPT
                  !.insert_pos = insert_pos,
                  !.new_chromosome =
                      reassign_customer_to_depot(mutation_call.chromosome,
                                                 mutation_call.customer,
                                                 mutation_call.old_depot,
                                                 mutation_call.new_depot, insert_pos)]
    /\ pc' = "reassigned"
    /\ UNCHANGED mutation_unchanged

\* routes between any two depots, and a lone depot
AllDepots == Depots \cup OtherDepots
MutationRoutes ==
    {<<q[1]>> \o q[2] \o <<q[3]>> : q \in AllDepots \X Middles(MaxStops) \X AllDepots}
    \cup {<<"D1">>}

\* one or two routes, and some chromosomes that are not well-formed
MutationChromosomes ==
    MutationRoutes
    \cup {q[1] \o <<"|">> \o q[2] : q \in MutationRoutes \X MutationRoutes}
    \cup {<<>>, <<"D1", "C1">>, <<"|", "D1", "C1", "D1">>, <<"D1", "C1", "D1", "|">>,
          <<"D1", "C1", "D1", "|", "|", "D2", "C2", "D2">>,
          <<"D1", "C2", "D1", "|", "D2", "S1", "D2", "|", "D1", "C1", "D1">>}

InitMutation ==
    /\ chromosome = <<>>
    /\ battery_capacity = 0
    /\ consumption_rate = 0
    /\ RepairIdle
    /\ FitnessIdle
    /\ EncodingIdle
    /\ evaluator_call = NotCalled
    /\ builder_call = NotCalled
    /\ crossover_call = NotCalled
    /\ selection_call = NotCalled
    /\ DriversIdle
    /\ \E c \in MutationChromosomes, customer \in Customers,
          old_depot \in AllDepots, new_depot \in AllDepots :
          mutation_call = [called |-> TRUE, chromosome |-> c, customer |-> customer,
                           old_depot |-> old_depot, new_depot |-> new_depot,
                           insert_pos |-> 0, new_chromosome |-> <<>>]
    /\ pc = "reassign"

SpecMutation == InitMutation /\ [][Reassign]_vars

----------------------------------------------------------------------------
(* main_integrated.py: the initial repair and the generation loop of
   run_integrated_ga *)

\* largest number of generations followed
MaxGenerations == 2

\* a fitness value as the integer selection compares: thousandths for a
\* weighted score, and 1e9 itself for the infeasibility penalty, which stays
\* above every weighted score of the explored instances
milli(v) == IF v.den = 1000 THEN v.num ELSE v.num

\* the winners one call of selection.run_tournament can return
tournament_winners(population, fitness_scores, tournament_size) ==
    LET n == Len(population)
    IN {tournament_winner(population, fitness_scores, indices) :
           indices \in IF tournament_size <= n THEN sample(n, tournament_size)
                       ELSE choices(n, tournament_size)}

\* new_parents without the tournaments that returned None
without_none(winners) == SelectSeq(winners, LAMBDA parent : parent # NoIndividual)

\* the lists selection.selection can return for a non-empty population with
\* as many scores and tournament_size >= 0
selection(population, fitness_scores, elite_size, tournament_size) ==
    LET n == Len(population)
        clamped == Max(0, Min(elite_size, n))
        elites == get_elites(population, fitness_scores, clamped)
    IN {elites \o without_none(winners) :
           winners \in [1..(n - clamped) ->
                           tournament_winners(population, fitness_scores, tournament_size)]}

integrated_unchanged ==
    <<chromosome, battery_capacity, consumption_rate, repair_args, repair_locals,
      fitness_args, fitness_results, encoding_results,
      evaluator_call, builder_call, crossover_call, selection_call, mutation_call, ga,
      first_pass>>

\* A. Hitung Fitness: fitness.fitness_function on every chromosome.  The
\* matrix is keyed by node name and so is node_coords: neither holds a pair
\* or an id of integers.
HitungFitness ==
    /\ pc = "hitung_fitness"
    /\ integrated_call.gen <= integrated_call.config.generations
    /\ integrated_call' =
          [integrated_call EXCEPT
              !.fitness_scores =
                  [k \in 1..Len(integrated_call.population) |->
                      milli(legacy_fitness_function(integrated_call.population[k],
                                                    IdMatrix(<<>>), Coords(<<>>),
                                                    integrated_call.battery_cap,
                                                    integrated_call.energy_consumption,
                                                    W_DISTANCE, W_CHARGING))],
              !.steps = <<"evaluation">>]
    /\ pc' = "seleksi"
    /\ UNCHANGED integrated_unchanged

\* B. Seleksi, and next_population = parents[:]
Seleksi ==
    /\ pc = "seleksi"
    /\ \E parents \in selection(integrated_call.population, integrated_call.fitness_scores,
                                integrated_call.config.elite_size,
                                integrated_call.config.tournament_size) :
          integrated_call' =
              [integrated_call EXCEPT
                  !.parents = parents,
                  !.next_population = parents,
                  !.steps = Append(@, "selection")]
    /\ pc' = "reproduksi"
    /\ UNCHANGED integrated_unchanged

\* C. Reproduksi, the body of `while len(next_population) < pop_size` up to
\* the crossover; random.choice raises IndexError on an empty list
Reproduksi ==
    /\ pc = "reproduksi"
    /\ Len(integrated_call.next_population) < integrated_call.config.pop_size
    /\ IF integrated_call.parents = <<>>
       THEN /\ integrated_call' = [integrated_call EXCEPT !.status = "IndexError"]
            /\ pc' = "integrated_done"
       ELSE \E k1, k2 \in 1..Len(integrated_call.parents) :
               LET p1 == integrated_call.parents[k1]
                   p2 == integrated_call.parents[k2]
               IN \E customer \in draws(p1) :
                     LET child_chrom == bcrc_crossover(p1, p2, integrated_call.dist_matrix,
                                                       customer)
                     IN IF child_chrom = <<"TypeError">>
                        THEN /\ integrated_call' =
                                    [integrated_call EXCEPT !.status = "TypeError"]
                             /\ pc' = "integrated_done"
                        ELSE /\ integrated_call' =
                                    [integrated_call EXCEPT
                                        !.child_chrom = child_chrom,
                                        !.steps = Append(@, "crossover")]
                             /\ pc' = "mutasi"
    /\ UNCHANGED integrated_unchanged

\* 2. Mutasi: apply_mutation is called with the keyword station_locations,
\* which it does not have; the call raises TypeError before its body runs,
\* so the repair of the child and the append are never reached
Mutasi ==
    /\ pc = "mutasi"
    /\ integrated_call' = [integrated_call EXCEPT !.status = "TypeError"]
    /\ pc' = "integrated_done"
    /\ UNCHANGED integrated_unchanged

\* population = next_population[:pop_size], and the next generation
Berikutnya ==
    /\ pc = "reproduksi"
    /\ Len(integrated_call.next_population) >= integrated_call.config.pop_size
    /\ integrated_call' =
          [integrated_call EXCEPT
              !.population = SubSeq(integrated_call.next_population, 1,
                                    integrated_call.config.pop_size),
              !.gen = @ + 1]
    /\ pc' = "hitung_fitness"
    /\ UNCHANGED integrated_unchanged

\* 6. Hasil akhir: the loop is over
Hasil ==
    /\ pc = "hitung_fitness"
    /\ integrated_call.gen > integrated_call.config.generations
    /\ integrated_call' = [integrated_call EXCEPT !.status = "returned"]
    /\ pc' = "integrated_done"
    /\ UNCHANGED integrated_unchanged

\* whether repair_chromosome looks up a node the matrix of names does not
\* have (dist_matrix[current_node][next_node] raises KeyError): a route
\* with a hop holds a gene that is not a node name
raises_key_error(chrom) ==
    LET rs == parse_routes(chrom)
    IN \E ri \in 1..Len(rs) :
          Len(rs[ri]) >= 2 /\ \E k \in 1..Len(rs[ri]) : rs[ri][k] \notin Nodes

\* 4. Initial repair: the next call of repair_chromosome, on
\* population[individual], with the matrix of names, the station names and
\* the battery parameters of the instance
PerbaikanAwal ==
    /\ pc = "perbaikan_awal"
    /\ integrated_call.individual <= Len(integrated_call.population)
    /\ LET chrom == integrated_call.population[integrated_call.individual]
       IN IF raises_key_error(chrom)
          THEN /\ integrated_call' = [integrated_call EXCEPT !.status = "KeyError"]
               /\ pc' = "integrated_done"
               /\ UNCHANGED <<chromosome, battery_capacity, consumption_rate,
                              repair_args, repair_locals>>
          ELSE /\ chromosome' = chrom
               /\ dist_matrix' = LineMatrix(integrated_call.positions)
               /\ station_ids' = integrated_call.station_ids
               /\ battery_capacity' = integrated_call.battery_cap
               /\ consumption_rate' = integrated_call.energy_consumption
               /\ routes' = <<>>
               /\ r' = 1
               /\ new_route' = <<>>
               /\ current_node' = None
               /\ current_battery' = 0
               /\ i' = 0
               /\ repaired_chromosome' = <<>>
               /\ dead_end' = FALSE
               /\ pc' = "parse"
               /\ UNCHANGED integrated_call
    /\ UNCHANGED <<fitness_args, fitness_results, encoding_results,
                   evaluator_call, builder_call, crossover_call, selection_call,
                   mutation_call, ga, first_pass>>

\* repaired_pop.append(fixed_chrom)
SimpanHasil ==
    /\ pc = "done"
    /\ integrated_call.called
    /\ integrated_call' =
          [integrated_call EXCEPT
              !.repaired_pop = Append(@, repaired_chromosome),
              !.individual = @ + 1]
    /\ pc' = "perbaikan_awal"
    /\ UNCHANGED integrated_unchanged

\* population = repaired_pop, and the first generation
MulaiGenerasi ==
    /\ pc = "perbaikan_awal"
    /\ integrated_call.individual > Len(integrated_call.population)
    /\ integrated_call' =
          [integrated_call EXCEPT !.population = integrated_call.repaired_pop]
    /\ pc' = "hitung_fitness"
    /\ UNCHANGED integrated_unchanged

\* generatePopulation.calculate_distance, for coordinates whose distance is
\* an integer
calculate_distance(coords, node1, node2) == euclid(coords[node1], coords[node2])

\* generatePopulation.find_nearest_station: the first of the strictly nearest
\* stations; 0 stands for None (both are false in `if nearest_station:`)
find_nearest_station(coords, from_node, stations) ==
    LET RECURSIVE scan(_, _, _)
        scan(k, min_dist, nearest_station) ==
            IF k > Len(stations) THEN nearest_station
            ELSE LET dist == calculate_distance(coords, from_node, stations[k])
                 IN IF min_dist = Inf \/ dist < min_dist
                    THEN scan(k + 1, dist, stations[k])
                    ELSE scan(k + 1, min_dist, nearest_station)
    IN scan(1, Inf, 0)

\* the route generate_initial_chromosome builds for one vehicle: the depot,
\* the customers in order with the nearest station put in where the energy
\* falls short, and the depot again; consumption_rate is 1.0
generated_route(evrp, depot_node, route_customers) ==
    LET coords == evrp.coords
        stations == evrp.stations
        n == Len(route_customers)
        \* the station check before or after a customer: the nearest
        \* station is appended when the energy reaches it
        recharge(st, needed) ==
            LET nearest_station == find_nearest_station(coords, st.current_node, stations)
            IN IF st.current_energy < needed /\ stations # <<>> /\ nearest_station # 0
                  /\ st.current_energy
                        >= calculate_distance(coords, st.current_node, nearest_station)
               THEN [route |-> Append(st.route, nearest_station),
                     current_energy |-> evrp.energy_capacity,
                     current_node |-> nearest_station]
               ELSE st
        RECURSIVE visit(_, _)
        visit(idx, st) ==
            IF idx > n
            THEN LET nearest_station ==
                         find_nearest_station(coords, st.current_node, stations)
                 IN IF st.current_energy
                          < calculate_distance(coords, st.current_node, depot_node)
                       /\ stations # <<>> /\ nearest_station # 0
                    THEN st.route \o <<nearest_station, depot_node>>
                    ELSE Append(st.route, depot_node)
            ELSE LET c == route_customers[idx]
                     min_energy_reserve ==
                         IF idx < n
                         THEN Min(calculate_distance(coords, c, depot_node),
                                  calculate_distance(coords, c, route_customers[idx + 1])
                                  + calculate_distance(coords, route_customers[idx + 1],
                                                       depot_node))
                         ELSE calculate_distance(coords, c, depot_node)
                     before == recharge(st, calculate_distance(coords, st.current_node, c)
                                            + min_energy_reserve)
                     at_customer ==
                         [route |-> Append(before.route, c),
                          current_energy |->
                              before.current_energy
                              - calculate_distance(coords, before.current_node, c),
                          current_node |-> c]
                     after ==
                         IF idx < n
                         THEN recharge(at_customer,
                                       calculate_distance(coords, c, route_customers[idx + 1])
                                       + calculate_distance(coords, route_customers[idx + 1],
                                                            depot_node))
                         ELSE at_customer
                 IN visit(idx + 1, after)
    IN visit(1, [route |-> <<depot_node>>, current_energy |-> evrp.energy_capacity,
                 current_node |-> depot_node])

\* generate_initial_chromosome(evrp_data) when random.shuffle leaves the
\* customers in the order `customers`: one route per vehicle, the depots
\* taken in turn, the last vehicle taking the customers that remain; the
\* genes are the integer ids.  len(customers) // vehicles raises
\* ZeroDivisionError for no vehicle, v % len(depot) for no depot.
generate_initial_chromosome(evrp, customers) ==
    LET vehicles == evrp.vehicles
        customers_per_vehicle == Len(customers) \div vehicles
        route_of(v) ==
            LET start_idx == v * customers_per_vehicle
                end_idx == IF v = vehicles - 1 THEN Len(customers)
                           ELSE (v + 1) * customers_per_vehicle
            IN generated_route(evrp, evrp.depot[(v % Len(evrp.depot)) + 1],
                               SubSeq(customers, start_idx + 1, end_idx))
        genes(route_ids) == [k \in 1..Len(route_ids) |-> IntegerGenes_in_order[route_ids[k]]]
        RECURSIVE chromosome_from(_)
        chromosome_from(v) ==
            IF v >= vehicles THEN <<>>
            ELSE genes(route_of(v)) \o (IF v < vehicles - 1 THEN <<"|">> ELSE <<>>)
                 \o chromosome_from(v + 1)
    IN IF vehicles = 0 \/ (vehicles > 0 /\ evrp.depot = <<>>)
       THEN <<"ZeroDivisionError">>
       ELSE chromosome_from(0)

\* the orders random.shuffle can leave a list in
shuffles(list) ==
    {[k \in 1..Len(list) |-> list[f[k]]] :
        f \in {g \in [1..Len(list) -> 1..Len(list)] :
                  \A a, b \in 1..Len(list) : a # b => g[a] # g[b]}}

\* the instance of the driver as parse_evrp_file returns it: depot 1,
\* customers 2 and 3, station 4, and the VEHICLES and ENERGY_CAPACITY lines
\* of the file as int() reads them; prepare_data_structures names the nodes
\* D1, C1, C2 and S1 here
IntegratedEvrp(vehicles, energy_capacity) ==
    [depot |-> <<1>>, customers |-> <<2, 3>>, stations |-> <<4>>,
     vehicles |-> vehicles, energy_capacity |-> energy_capacity,
     coords |-> <<<<0, 0>>, <<1, 0>>, <<2, 0>>, <<1, 0>>>>]

\* chromosomes generate_initial_chromosome writes for the instance with the
\* given number of vehicles and energy capacity: for a negative number
\* range(vehicles) is empty and the chromosome is []
GeneratedIndividuals(vehicles, energy_capacity) ==
    {generate_initial_chromosome(IntegratedEvrp(vehicles, energy_capacity), customers) :
        customers \in shuffles(IntegratedEvrp(vehicles, energy_capacity).customers)}

\* the VEHICLES lines followed: with none the generator raises
\* ZeroDivisionError and the driver has no population
IntegratedVehicles == {0 - 1, 1, 2}

\* positions of the nodes of the instance
IntegratedPlace == Place(0, 1, 2, 1, 0)

\* configuration.py ships pop_size 50, elite_size 2, tournament_size 5
IntegratedConfigs ==
    [pop_size : 2..MaxPop, generations : 1..MaxGenerations, elite_size : 0..2,
     tournament_size : {0, 2, 5}]

InitIntegrated ==
    /\ chromosome = <<>>
    /\ battery_capacity = 1
    /\ consumption_rate = 1
    /\ RepairIdle
    /\ FitnessIdle
    /\ EncodingIdle
    /\ evaluator_call = NotCalled
    /\ builder_call = NotCalled
    /\ crossover_call = NotCalled
    /\ selection_call = NotCalled
    /\ mutation_call = NotCalled
    /\ ga = NotCalled
    /\ first_pass = NotCalled
    /\ \E config \in IntegratedConfigs, battery_cap \in {2, 3, 4},
          vehicles \in IntegratedVehicles :
       \E population \in [1..config.pop_size ->
                             GeneratedIndividuals(vehicles, battery_cap)] :
          integrated_call =
              [called |-> TRUE, config |-> config, vehicles |-> vehicles,
               positions |-> IntegratedPlace,
               dist_matrix |-> [shape |-> "nested",
                                entries |-> LineEntries(IntegratedPlace)],
               station_ids |-> <<"S1">>,
               battery_cap |-> battery_cap, energy_consumption |-> 1,
               population |-> population, individual |-> 1, repaired_pop |-> <<>>,
               gen |-> 1, fitness_scores |-> <<>>,
               parents |-> <<>>, next_population |-> <<>>, child_chrom |-> <<>>,
               steps |-> <<>>, status |-> "running"]
    /\ pc = "perbaikan_awal"

NextIntegrated ==
    \/ PerbaikanAwal
    \/ Parse
    \/ Return
    \/ SimpanHasil
    \/ MulaiGenerasi
    \/ HitungFitness
    \/ Seleksi
    \/ Reproduksi
    \/ Mutasi
    \/ Berikutnya
    \/ Hasil

SpecIntegrated == InitIntegrated /\ [][NextIntegrated]_vars

----------------------------------------------------------------------------
(* mutation.py: apply_mutation.  A dict of locations is the sequence of its
   items [id, xy] in insertion order; the locations explored lie at integer
   distances from one another. *)

\* distances[depot_id] for every depot, in the order of depot_locations
depot_distances(loc, depot_locations) ==
    [k \in 1..Len(depot_locations) |->
        [id |-> depot_locations[k].id, dist |-> euclid(loc, depot_locations[k].xy)]]

\* sorted(distances.items(), key=lambda x: x[1]), a stable sort
sorted_depots(distances) ==
    LET dists == [k \in 1..Len(distances) |-> distances[k].dist]
    IN [p \in 1..Len(distances) |->
           distances[CHOOSE k \in 1..Len(distances) : rank(dists, k) = p - 1]]

RECURSIVE sum_distances(_, _)
sum_distances(distances, k) ==
    IF k > Len(distances) THEN 0 ELSE distances[k].dist + sum_distances(distances, k + 1)

\* mutation.is_border_customer with r = 0.3 and beta = 0.2 (in tenths: a
\* ratio of at least 3/10, a difference of at most 2/10); the customer is
\* not at the place of every depot, so that total_distance > 0
is_border_customer(customer, depot_locations, customer_locations) ==
    IF customer \notin keys(customer_locations) THEN FALSE
    ELSE LET distances == depot_distances(item(customer_locations, customer), depot_locations)
         IN IF Len(distances) < 2 THEN FALSE
            ELSE LET nearest_dist == sorted_depots(distances)[1].dist
                     second_dist == sorted_depots(distances)[2].dist
                     total_distance == sum_distances(distances, 1)
                 IN /\ 10 * (nearest_dist + second_dist) >= 3 * total_distance
                    /\ 10 * (second_dist - nearest_dist) <= 2

\* mutation.get_candidate_depots: the depots after the nearest whose distance
\* exceeds the nearest by at most beta
get_candidate_depots(customer, depot_locations, customer_locations) ==
    IF customer \notin keys(customer_locations) THEN <<>>
    ELSE LET sorted == sorted_depots(depot_distances(item(customer_locations, customer),
                                                     depot_locations))
             near == SelectSeq(Tail(sorted),
                               LAMBDA d : 10 * (d.dist - sorted[1].dist) <= 2)
         IN [k \in 1..Len(near) |-> near[k].id]

\* the entries of border_list that random.choice can return
find_border_customers(chrom, depot_locations, customer_locations) ==
    LET rts == extract_routes(chrom)
        candidates(k, j) ==
            LET found == get_candidate_depots(rts[k].customers[j], depot_locations,
                                              customer_locations)
            IN IF \E x \in 1..Len(found) : found[x] = rts[k].depot
               THEN remove(found, rts[k].depot) ELSE found
    IN {[customer |-> rts[q[1]].customers[q[2]], current_depot |-> rts[q[1]].depot,
         candidate_depots |-> candidates(q[1], q[2])] :
           q \in {q \in (1..Len(rts)) \X (1..Len(chrom)) :
                     /\ q[2] <= Len(rts[q[1]].customers)
                     /\ is_border_customer(rts[q[1]].customers[q[2]], depot_locations,
                                           customer_locations)
                     /\ candidates(q[1], q[2]) # <<>>}}

\* what mutation.inter_depot_mutation can return for a non-empty border list
inter_depot_mutation(chrom, border_customers) ==
    UNION {UNION {{reassign_customer_to_depot(chrom, selected.customer,
                                              selected.current_depot,
                                              selected.candidate_depots[d], insert_pos) :
                      insert_pos \in insert_positions(
                                         remaining_routes(chrom, selected.customer,
                                                          selected.current_depot),
                                         selected.candidate_depots[d])} :
                     d \in 1..Len(selected.candidate_depots)} :
              selected \in border_customers}

\* customers[pos1], customers[pos2] = customers[pos2], customers[pos1]
\* (positions 1-based)
swap(customers, pos1, pos2) ==
    [customers EXCEPT ![pos1] = customers[pos2], ![pos2] = customers[pos1]]

\* customers[start:end+1] = reversed(customers[start:end+1]) (1-based)
inversion(customers, start, end) ==
    [k \in 1..Len(customers) |->
        IF k >= start /\ k <= end THEN customers[start + end - k] ELSE customers[k]]

\* customers.insert(to_pos, customers.pop(from_pos)) (1-based)
insertion(customers, from_pos, to_pos) ==
    insert(SubSeq(customers, 1, from_pos - 1) \o SubSeq(customers, from_pos + 1, Len(customers)),
           to_pos - 1, customers[from_pos])

\* the orders the three mutation types can leave in a route of two or more
\* customers
rearrangements(customers) ==
    LET n == Len(customers)
    IN {swap(customers, q[1], q[2]) : q \in {q \in (1..n) \X (1..n) : q[1] # q[2]}}
       \cup {inversion(customers, q[1], q[2]) : q \in {q \in (1..n) \X (1..n) : q[1] < q[2]}}
       \cup {insertion(customers, q[1], q[2]) : q \in {q \in (1..n) \X (1..n) : q[1] # q[2]}}

\* what mutation.intra_depot_mutation can return
intra_depot_mutation(chrom) ==
    LET rts == extract_routes(chrom)
        valid_routes == {k \in 1..Len(rts) : Len(rts[k].customers) >= 2}
    IN IF valid_routes = {} THEN {chrom}
       ELSE UNION {{rebuild_chromosome_from_routes(
                        [rts EXCEPT ![k] = [depot |-> rts[k].depot, customers |-> customers,
                                            full_route |-> <<rts[k].depot>> \o customers
                                                           \o <<rts[k].depot>>]]) :
                       customers \in rearrangements(rts[k].customers)} :
                      k \in valid_routes}

\* whether extract_routes raises AttributeError: it calls startswith on the
\* first gene of a route of two or more genes, and on the last when the first
\* is a depot
extract_routes_raises(chrom) ==
    \E rt \in {split_routes(chrom)[k] : k \in 1..Len(split_routes(chrom))} :
        /\ Len(rt) >= 2
        /\ \/ ~isinstance_str(rt[1])
           \/ (startswith(rt[1], "D") /\ ~isinstance_str(rt[Len(rt)]))

\* what mutation.apply_mutation can return for 0 < mutation_probability < 1;
\* <<"AttributeError">> when it raises
apply_mutation(chrom, depot_locations, customer_locations) ==
    IF extract_routes_raises(chrom) THEN {chrom, <<"AttributeError">>}
    ELSE LET border_customers == find_border_customers(chrom, depot_locations,
                                                       customer_locations)
         IN {chrom}
            \cup intra_depot_mutation(chrom)
            \cup (IF border_customers # {} THEN inter_depot_mutation(chrom, border_customers)
                  ELSE {})

----------------------------------------------------------------------------
(* main.py: GeneticAlgorithmEVRP.run_generation *)

\* fitness > 1e8, the test evaluate_fitness makes on a fitness value
above_threshold(v) ==
    \/ v.num \div v.den > 100000000
    \/ (v.num \div v.den = 100000000 /\ v.num % v.den > 0)

\* a < b for scores, float('inf') included
less_than(a, b) == IF a = Inf THEN FALSE ELSE IF b = Inf THEN TRUE ELSE a < b

\* a comparison that always succeeds
always_less(a, b) == TRUE

\* the test `min_fitness < self.best_fitness` of run_generation
improves(min_fitness, best_fitness) == less_than(min_fitness, best_fitness)

\* min(fitness_scores) and fitness_scores.index(min_fitness), 1-based
min_score(fitness_scores) ==
    CHOOSE s \in {fitness_scores[k] : k \in 1..Len(fitness_scores)} :
        \A k \in 1..Len(fitness_scores) : s <= fitness_scores[k]
index(fitness_scores, s) ==
    CHOOSE k \in 1..Len(fitness_scores) :
        fitness_scores[k] = s /\ \A j \in 1..(k - 1) : fitness_scores[j] # s

\* the call of fitness.fitness_function in evaluate_fitness
ga_fitness(chrom) ==
    legacy_fitness_function(chrom, ga.distance_matrix, ga.coords, ga.battery_capacity,
                            ga.consumption_rate, W_DISTANCE, W_CHARGING)

\* what perform_crossover can return for 0 < crossover_probability < 1: the
\* child of bcrc_crossover, or a copy of parent1 when no crossover is drawn
\* or the crossover raises
perform_crossover(parent1, parent2, dist_dict) ==
    IF \E k \in 1..Len(parent1) : ~isinstance_str(parent1[k])
    THEN {parent1}
    ELSE {parent1}
         \cup {LET child == bcrc_crossover(parent1, parent2, dist_dict, customer)
               IN IF child = <<"TypeError">> THEN parent1 ELSE child :
                  customer \in draws(parent1)}

ga_unchanged ==
    <<chromosome, battery_capacity, consumption_rate, repair_args, repair_locals,
      fitness_args, fitness_results, encoding_results,
      evaluator_call, builder_call, crossover_call, selection_call, mutation_call,
      integrated_call, first_pass>>

\* the chromosomes generate_initial_chromosome returns for two vehicles, the
\* depots 1 and 2, the customers 3 and 4 and no station
EvrpChromosomes ==
    {<<"1", "3", "1", "|", "2", "4", "2">>, <<"1", "4", "1", "|", "2", "3", "2">>}

\* evaluate_fitness: every chromosome is scored; one that scores above 1e8
\* is replaced by a new one, which is scored in its place
EvaluateFitness ==
    /\ pc = "run_generation"
    /\ ga.generation < MaxGenerations
    /\ \E fresh \in [1..Len(ga.population) -> EvrpChromosomes] :
          LET infeasible == {k \in 1..Len(ga.population) :
                                above_threshold(ga_fitness(ga.population[k]))}
              population == [k \in 1..Len(ga.population) |->
                                IF k \in infeasible THEN fresh[k] ELSE ga.population[k]]
              fitness_scores == [k \in 1..Len(population) |-> milli(ga_fitness(population[k]))]
          IN /\ \A k \in 1..Len(ga.population) : k \notin infeasible => fresh[k] = ga.population[k]
             /\ ga' = [ga EXCEPT
                          !.population = population,
                          !.infeasible_count = @ + Cardinality(infeasible),
                          !.fitness_scores = fitness_scores,
                          !.observed = @ \cup {<<population[k], fitness_scores[k]>> :
                                                  k \in 1..Len(population)}]
    /\ pc' = "track_best"
    /\ UNCHANGED ga_unchanged

\* run_generation: track best solution
TrackBest ==
    /\ pc = "track_best"
    /\ LET min_fitness == min_score(ga.fitness_scores)
           min_idx == index(ga.fitness_scores, min_fitness)
           better == improves(min_fitness, ga.best_fitness)
           best_fitness == IF better THEN min_fitness ELSE ga.best_fitness
       IN ga' = [ga EXCEPT
                    !.best_fitness = best_fitness,
                    !.best_solution = IF better THEN ga.population[min_idx] ELSE @,
                    !.best_fitness_history = Append(@, best_fitness)]
    /\ pc' = "ga_selection"
    /\ UNCHANGED ga_unchanged

\* run_generation: selection, and the elites that start new_population
SelectParents ==
    /\ pc = "ga_selection"
    /\ \E new_parents \in selection(ga.population, ga.fitness_scores, ga.elite_size,
                                    ga.tournament_size) :
          ga' = [ga EXCEPT
                    !.new_parents = new_parents,
                    !.new_population = get_elites(ga.population, ga.fitness_scores,
                                                  ga.elite_size),
                    !.attempts = 0]
    /\ pc' = "offspring"
    /\ UNCHANGED ga_unchanged

\* run_generation: one pass of the offspring loop; random.choice raises
\* IndexError when new_parents is empty, and perform_mutation lets the
\* AttributeError of apply_mutation through
Offspring ==
    /\ pc = "offspring"
    /\ Len(ga.new_population) < ga.population_size
    /\ ga.attempts < ga.population_size * 2
    /\ IF ga.new_parents = <<>>
       THEN /\ ga' = [ga EXCEPT !.attempts = @ + 1, !.status = "IndexError"]
            /\ pc' = "ga_raised"
       ELSE \E k1, k2 \in 1..Len(ga.new_parents) :
            \E crossed \in perform_crossover(ga.new_parents[k1], ga.new_parents[k2],
                                             [shape |-> "tuple",
                                              entries |-> ga.distance_matrix.entries]) :
            \E child \in apply_mutation(crossed, ga.depot_locations, ga.customer_locations) :
               IF child = <<"AttributeError">>
               THEN /\ ga' = [ga EXCEPT !.attempts = @ + 1, !.status = "AttributeError"]
                    /\ pc' = "ga_raised"
               ELSE /\ ga' = [ga EXCEPT
                                 !.attempts = @ + 1,
                                 !.new_population = Append(@, child)]
                    /\ pc' = "offspring"
    /\ UNCHANGED ga_unchanged

\* run_generation: the population is cut to population_size and filled up
\* with new chromosomes
Replace ==
    /\ pc = "offspring"
    /\ ~(Len(ga.new_population) < ga.population_size /\ ga.attempts < ga.population_size * 2)
    /\ LET kept == SubSeq(ga.new_population, 1, Min(Len(ga.new_population), ga.population_size))
       IN \E fill \in [1..(ga.population_size - Len(kept)) -> EvrpChromosomes] :
             ga' = [ga EXCEPT
                       !.population = kept \o fill,
                       !.generation = @ + 1]
    /\ pc' = "run_generation"
    /\ UNCHANGED ga_unchanged

\* the instance: depots 1 and 2, customers 3 and 4 on a line
EvrpCoords ==
    <<[id |-> 1, xy |-> <<0, 0>>], [id |-> 2, xy |-> <<4, 0>>],
      [id |-> 3, xy |-> <<2, 0>>], [id |-> 4, xy |-> <<1, 0>>]>>

InitGa ==
    /\ chromosome = <<>>
    /\ battery_capacity = 1
    /\ consumption_rate = 1
    /\ RepairIdle
    /\ FitnessIdle
    /\ EncodingIdle
    /\ evaluator_call = NotCalled
    /\ builder_call = NotCalled
    /\ crossover_call = NotCalled
    /\ selection_call = NotCalled
    /\ mutation_call = NotCalled
    /\ integrated_call = NotCalled
    /\ first_pass = NotCalled
    /\ \E population_size \in 1..2, elite_size \in 0..2, tournament_size \in 0..2,
          capacity \in {4, 6} :
       \E population \in [1..population_size -> EvrpChromosomes] :
          ga = [called |-> TRUE,
                population_size |-> population_size, elite_size |-> elite_size,
                tournament_size |-> tournament_size,
                battery_capacity |-> capacity, consumption_rate |-> 1,
                distance_matrix |-> IdMatrix(calculate_distance_matrix(EvrpCoords)),
                coords |-> Coords([id \in keys(EvrpCoords) |-> item(EvrpCoords, id)]),
                depot_locations |-> <<[id |-> "D1", xy |-> <<0, 0>>],
                                      [id |-> "D2", xy |-> <<4, 0>>]>>,
                customer_locations |-> <<[id |-> "C3", xy |-> <<2, 0>>],
                                         [id |-> "C4", xy |-> <<1, 0>>]>>,
                population |-> population,
                best_fitness_history |-> <<>>, best_solution |-> NoIndividual,
                best_fitness |-> Inf, infeasible_count |-> 0,
                fitness_scores |-> <<>>, new_parents |-> <<>>, new_population |-> <<>>,
                attempts |-> 0, generation |-> 0, observed |-> {}, status |-> "running"]
    /\ pc = "run_generation"

NextGa ==
    \/ EvaluateFitness
    \/ TrackBest
    \/ SelectParents
    \/ Offspring
    \/ Replace

SpecGa == InitGa /\ [][NextGa]_vars

----------------------------------------------------------------------------
(* Properties *)

\* number of occurrences of gene x in a sequence
Count(seq, x) == Cardinality({k \in 1..Len(seq) : seq[k] = x})

\* no leading, trailing or consecutive separators
WellFormedSeparators(chrom) ==
    /\ chrom # <<>> => chrom[1] # "|" /\ chrom[Len(chrom)] # "|"
    /\ \A k \in 1..(Len(chrom) - 1) : ~(chrom[k] = "|" /\ chrom[k + 1] = "|")

\* a route that starts and ends at a depot and has no depot in between
WellFormedRoute(rt) ==
    /\ Len(rt) >= 2
    /\ startswith(rt[1], "D")
    /\ startswith(rt[Len(rt)], "D")
    /\ \A k \in 2..(Len(rt) - 1) : ~startswith(rt[k], "D")

WellFormed(chrom) ==
    /\ chrom # <<>>
    /\ WellFormedSeparators(chrom)
    /\ \A k \in 1..Len(parse_routes(chrom)) : WellFormedRoute(parse_routes(chrom)[k])

\* the evaluator on a chromosome, with the arguments of the repair call
Score(chrom) ==
    fitness_function(chrom, Nested(dist_matrix), battery_capacity, consumption_rate,
                     1, W_DISTANCE, W_CHARGING)

Infeasible(chrom) == IsValue(Score(chrom), INFEASIBLE_PENALTY)
Feasible(chrom) == Below(Score(chrom), INFEASIBLE_PENALTY)

\* out is inp with members of sids inserted, nothing else changed
RECURSIVE OnlyInserts(_, _, _)
OnlyInserts(inp, out, sids) ==
    IF out = <<>> THEN inp = <<>>
    ELSE \/ inp # <<>> /\ Head(inp) = Head(out) /\ OnlyInserts(Tail(inp), Tail(out), sids)
         \/ (\E k \in 1..Len(sids) : sids[k] = Head(out)) /\ OnlyInserts(inp, Tail(out), sids)

\* the routes of the returned chromosome
repaired_routes == split_routes(repaired_chromosome)

\* C1: when repair_chromosome returns, every customer identifier occurs in
\* the output as often as in the input.
C1_CustomerConservation ==
    pc = "done" =>
        \A c \in Customers : Count(repaired_chromosome, c) = Count(chromosome, c)

\* C1 witness: a call that inserted a station and took the dead-end branch
\* returned a chromosome with two customers.
C1_Witness ==
    /\ pc = "done"
    /\ dead_end
    /\ Len(repaired_chromosome) > Len(chromosome)
    /\ Count(chromosome, "C1") = 1
    /\ Count(chromosome, "C2") = 1

\* what an iteration of the while loop decides on: the index, the current
\* node and the battery after the charging step
LoopState == <<r, i, current_node, charged_battery>>

\* C2: every call of repair_chromosome returns, the station-insertion loop
\* cannot repeat forever: no iteration leaves the loop in the state it
\* started from (the loop is deterministic in that state, so an iteration
\* that returns to it is repeated without end).
C2_Terminates == [][InLoop => LoopState' # LoopState]_vars

\* C3: the returned routes are the non-empty input routes, in order, each
\* with the same first and last node and with nothing but members of
\* station_ids inserted.
C3_OnlyAddsStations ==
    pc = "done" =>
        /\ Len(repaired_routes) = Len(routes)
        /\ \A k \in 1..Len(routes) :
              /\ OnlyInserts(routes[k], repaired_routes[k], station_ids)
              /\ repaired_routes[k][1] = routes[k][1]
              /\ repaired_routes[k][Len(repaired_routes[k])] = routes[k][Len(routes[k])]

\* C3 witness: a call on two routes returned with a station inserted.
C3_Witness ==
    /\ pc = "done"
    /\ Len(routes) = 2
    /\ Len(repaired_chromosome) > Len(chromosome)

\* rt with at most one station of sids inserted before each node after the first
RECURSIVE Insertions(_, _)
Insertions(rt, sids) ==
    IF Len(rt) <= 1 THEN {rt}
    ELSE LET front == Insertions(SubSeq(rt, 1, Len(rt) - 1), sids)
             last == rt[Len(rt)]
         IN {Append(f, last) : f \in front}
            \cup {f \o <<sids[k], last>> : f \in front, k \in 1..Len(sids)}

\* C4: a well-formed route that some insertion of station visits makes
\* feasible is feasible as repair_chromosome returns it.
C4_RestoresFeasibility ==
    (pc = "done" /\ WellFormed(chromosome)) =>
        \A k \in 1..Len(routes) :
            (\E cand \in Insertions(routes[k], station_ids) : Feasible(cand))
                => Feasible(repaired_routes[k])

\* C5: in the station insertion scenario the repaired route of
\* [D1, C1, D1] contains S1 and scores below the sentinel.
C5_StationInsertionScenario ==
    (/\ pc = "done"
     /\ chromosome = <<"D1", "C1", "D1">>
     /\ dist_matrix = StationInsertionScenario.dist_matrix
     /\ station_ids = StationInsertionScenario.station_ids
     /\ battery_capacity = StationInsertionScenario.battery_capacity
     /\ consumption_rate = StationInsertionScenario.consumption_rate)
    => /\ Count(repaired_chromosome, "S1") >= 1
       /\ Feasible(repaired_chromosome)

\* C6: a returned chromosome on which the dead-end branch was taken scores
\* the infeasibility sentinel.
C6_DeadEndPenalised ==
    (pc = "done" /\ dead_end) => Infeasible(repaired_chromosome)

\* energy of all hops of a route, by the matrix of the repair call
RECURSIVE RouteEnergy(_, _)
RouteEnergy(rt, k) ==
    IF k >= Len(rt) THEN 0
    ELSE dist_matrix[rt[k]][rt[k + 1]] * consumption_rate + RouteEnergy(rt, k + 1)

InFeasibleScenario ==
    /\ chromosome = <<"D1", "C1", "D1">>
    /\ dist_matrix = FeasibleScenario.dist_matrix
    /\ station_ids = FeasibleScenario.station_ids
    /\ battery_capacity = FeasibleScenario.battery_capacity
    /\ consumption_rate = FeasibleScenario.consumption_rate

\* C7: on a well-formed chromosome that scores below the sentinel, every
\* route whose whole energy the battery of the route start covers is
\* returned unchanged; in the feasible scenario [D1, C1, D1] is returned
\* unchanged and scores w_distance * 4 / 100 for every weight w_distance.
C7_FeasibleUntouched ==
    pc = "done" =>
        /\ (WellFormed(chromosome) /\ Feasible(chromosome)) =>
              \A k \in 1..Len(routes) :
                  RouteEnergy(routes[k], 1) <= battery_capacity
                      => repaired_routes[k] = routes[k]
        /\ InFeasibleScenario =>
              /\ repaired_chromosome = chromosome
              /\ \A w \in 0..10 :
                    LET v == fitness_function(repaired_chromosome, Nested(dist_matrix),
                                              battery_capacity, consumption_rate,
                                              1, w, W_CHARGING)
                    IN v.status = "returned" /\ v.num * 1000 = w * 4 * v.den

\* C7, the scenario: the feasible scenario has returned.
C7_ScenarioReached == pc = "done" /\ InFeasibleScenario

\* C7 witness: a feasible chromosome of two routes, each using the whole
\* battery, was returned by a call that was offered a station.
C7_Witness ==
    /\ pc = "done"
    /\ WellFormed(chromosome)
    /\ Feasible(chromosome)
    /\ Len(routes) = 2
    /\ station_ids # <<>>
    /\ \A k \in 1..2 : RouteEnergy(routes[k], 1) = battery_capacity

\* C8: a chromosome without leading, trailing or consecutive separators
\* is what join_routes makes of its split_routes.
C8_RoundTrip ==
    (pc = "joined" /\ WellFormedSeparators(chromosome)) => flat = chromosome

\* C8 witness: a well-formed chromosome of two routes went through both.
C8_Witness ==
    /\ pc = "joined"
    /\ WellFormedSeparators(chromosome)
    /\ Len(nested) = 2
    /\ Len(chromosome) = MaxFlat

\* a hop between distinct nodes whose pair has no entry in either direction
MissingHop(chrom, matrix) ==
    \E k \in 1..(Len(chrom) - 1) :
        /\ chrom[k] # "|" /\ chrom[k + 1] # "|" /\ chrom[k] # chrom[k + 1]
        /\ <<chrom[k], chrom[k + 1]>> \notin DOMAIN matrix.entries
        /\ <<chrom[k + 1], chrom[k]>> \notin DOMAIN matrix.entries

\* the same for the legacy evaluator, whose matrix is keyed by integer ids
LegacyMissingHop(chrom, matrix) ==
    \E k \in 1..(Len(chrom) - 1) :
        /\ chrom[k] # "|" /\ chrom[k + 1] # "|" /\ chrom[k] # chrom[k + 1]
        /\ matrix.given
        /\ <<extract_id(chrom[k]), extract_id(chrom[k + 1])>> \notin DOMAIN matrix.entries
        /\ <<extract_id(chrom[k + 1]), extract_id(chrom[k])>> \notin DOMAIN matrix.entries

\* C9: both evaluators return their sentinel for a chromosome with a hop
\* whose pair has no entry in the distance matrix.
C9_UnreachableNeverFree ==
    pc = "scored" =>
        /\ MissingHop(chromosome, distance_matrix) => IsValue(fitness, INFEASIBLE_PENALTY)
        /\ LegacyMissingHop(chromosome, legacy_matrix) => IsValue(legacy_fitness, invalid_penalty)

\* energy of hop k (0-based) of a route, by the matrix of the evaluator call
Need(rt, k) == get_distance(rt[k + 1], rt[k + 2], distance_matrix) * consumption_rate

Unreachable(rt, k) == get_distance(rt[k + 1], rt[k + 2], distance_matrix) = Inf

\* the first hop after k that ends at a station or depot (the last hop if none)
LegEnd(rt, k) ==
    LET stops == {j \in k..(Len(rt) - 2) :
                    startswith(rt[j + 2], "S") \/ startswith(rt[j + 2], "D")}
    IN IF stops = {} THEN Len(rt) - 2
       ELSE CHOOSE j \in stops : \A j2 \in stops : j <= j2

RECURSIVE SumNeed(_, _, _)
SumNeed(rt, from, to) ==
    IF from > to THEN 0 ELSE Need(rt, from) + SumNeed(rt, from + 1, to)

\* battery held when leaving node k (0-based) of a route whose earlier
\* hops were covered: full at the start, topped up at a station to the
\* energy of the leg to the next station or depot, never above capacity
RECURSIVE Held(_, _)
Held(rt, k) ==
    LET arrived == IF k = 0 THEN battery_capacity
                   ELSE Held(rt, k - 1) - Need(rt, k - 1)
    IN IF startswith(rt[k + 1], "S")
       THEN Min(battery_capacity, Max(arrived, SumNeed(rt, k, LegEnd(rt, k))))
       ELSE arrived

\* walking the route reaches a hop that is unreachable or needs more than
\* the battery held
RunsOut(rt) ==
    \/ \E k \in 0..(Len(rt) - 2) : Unreachable(rt, k)
    \/ \E k \in 0..(Len(rt) - 2) :
          /\ \A j \in 0..(k - 1) : Need(rt, j) <= Held(rt, j)
          /\ Need(rt, k) > Held(rt, k)

\* C10: ga.evaluator.fitness_function returns the sentinel exactly when
\* some route of the chromosome runs out of battery or has an
\* unreachable hop.
C10_SentinelIffRunsOut ==
    pc = "scored" =>
        (IsValue(fitness, INFEASIBLE_PENALTY)
            <=> \E k \in 1..Len(split_routes(chromosome)) :
                    RunsOut(split_routes(chromosome)[k]))

\* C10 witness: of two routes the first is covered and has a station
\* top-up, the second runs out, and the sentinel was returned.
C10_Witness ==
    /\ pc = "scored"
    /\ IsValue(fitness, INFEASIBLE_PENALTY)
    /\ Len(split_routes(chromosome)) = 2
    /\ ~RunsOut(split_routes(chromosome)[1])
    /\ Count(split_routes(chromosome)[1], "S1") = 1
    /\ RunsOut(split_routes(chromosome)[2])
    /\ \A k \in 0..(Len(split_routes(chromosome)[2]) - 2) :
          ~Unreachable(split_routes(chromosome)[2], k)

\* a loop state that is blocked at the length bound repeats itself: the
\* chosen station is the current node, at distance 0, and charging leaves
\* the battery as it is
BlockedOnlyWhenSpinning ==
    (InLoop /\ charged_battery < hop_energy_needed /\ chosen_station # None
        /\ Len(new_route) >= MaxNewRoute)
    => /\ chosen_station = current_node
       /\ dist_matrix[current_node][chosen_station] = 0
       /\ charged_battery = current_battery


\* sum of the distances of all consecutive node pairs of a route, by the
\* matrix of the evaluator call
RECURSIVE RouteDistance(_, _)
RouteDistance(rt, k) ==
    IF k > Len(rt) - 2 THEN 0
    ELSE get_distance(rt[k + 1], rt[k + 2], distance_matrix) + RouteDistance(rt, k + 1)

\* battery on arrival at node k (0-based) of a route
Arrived(rt, k) == IF k = 0 THEN battery_capacity ELSE Held(rt, k - 1) - Need(rt, k - 1)

\* sum over the station departures of a route of the shortfall: the energy
\* of the leg to the next station or depot less the battery on arrival
RECURSIVE RouteShortfall(_, _)
RouteShortfall(rt, k) ==
    IF k > Len(rt) - 2 THEN 0
    ELSE (IF startswith(rt[k + 1], "S")
          THEN Max(0, SumNeed(rt, k, LegEnd(rt, k)) - Arrived(rt, k))
          ELSE 0)
         + RouteShortfall(rt, k + 1)

RECURSIVE SumRoutes(_, _, _)
SumRoutes(rs, k, which) ==
    IF k > Len(rs) THEN 0
    ELSE (IF which = "distance" THEN RouteDistance(rs[k], 0) ELSE RouteShortfall(rs[k], 0))
         + SumRoutes(rs, k + 1, which)

TotalDistance == SumRoutes(split_routes(chromosome), 1, "distance")
TotalShortfall == SumRoutes(split_routes(chromosome), 1, "shortfall")

\* the value v is w_distance * (TotalDistance / 100)
\*              + w_charging * ((TotalShortfall / charging_rate) / 100)
IsScoreFormula(v) ==
    LET wd == evaluator_call.w_distance
        wc == evaluator_call.w_charging
        cr == evaluator_call.charging_rate
    IN IF TotalShortfall = 0
       THEN v.num * 1000 = wd * TotalDistance * v.den
       ELSE /\ cr # 0
            /\ v.num * 1000 * cr = (wd * TotalDistance * cr + wc * TotalShortfall) * v.den

FoundFeasible ==
    /\ pc = "scored"
    /\ evaluator_call.called
    /\ fitness.status = "returned"
    /\ ~IsValue(fitness, INFEASIBLE_PENALTY)

\* C11: a value that ga.evaluator.fitness_function returns for a feasible
\* chromosome is w_distance * (total_distance / 100) + w_charging *
\* (total_charging_time / 100): the distance summed over all consecutive
\* pairs of all routes, the charging time summed over the station
\* departures as shortfall / charging_rate; routes of fewer than two nodes
\* add nothing.
C11_ScoreFormula == FoundFeasible => IsScoreFormula(fitness)

\* C11 witness: a feasible chromosome of two routes scored with a station
\* top-up, at charging rate 2 and weights other than the defaults.
C11_Witness ==
    /\ FoundFeasible
    /\ Len(evaluator_call.routes) = 2
    /\ TotalShortfall > 0
    /\ evaluator_call.charging_rate = 2
    /\ evaluator_call.w_distance # W_DISTANCE

\* the step-by-step evaluator returns what fitness_function computes
SimulationAgrees ==
    (pc = "scored" /\ evaluator_call.called) =>
        fitness = fitness_function(chromosome, distance_matrix, battery_capacity,
                                   consumption_rate, evaluator_call.charging_rate,
                                   evaluator_call.w_distance, evaluator_call.w_charging)

\* C12: with charging_rate <= 0 the evaluator raises no division-by-zero
\* error and the charging time it has accumulated stays zero.
C12_NonPositiveRateIsZeroTime ==
    (evaluator_call.called /\ evaluator_call.charging_rate <= 0) =>
        /\ fitness.status # "ZeroDivisionError"
        /\ evaluator_call.total_required = 0

\* C13: the battery of the evaluator's simulation and of repair_chromosome
\* stays within 0 .. battery_capacity: after charging, after a hop, after
\* the detour to an inserted station and after a dead end.
C13_BatteryBounds ==
    /\ pc \in {"eval_hop", "eval_travel", "eval_route", "scored"} =>
          (evaluator_call.battery >= 0 /\ evaluator_call.battery <= battery_capacity)
    /\ pc \in {"route", "loop", "done"} =>
          (current_battery >= 0 /\ current_battery <= battery_capacity)
    /\ InLoop => (charged_battery >= 0 /\ charged_battery <= battery_capacity)

\* C13 witness, repair: past a station insertion and a dead end, the
\* battery was charged at a station to less than the capacity.
C13_Witness ==
    /\ InLoop
    /\ dead_end
    /\ startswith(current_node, "S")
    /\ charged_battery > current_battery
    /\ charged_battery < battery_capacity

\* C13, the evaluator: a station top-up stopped at the capacity.
C13_EvaluatorTopUp ==
    /\ pc = "eval_travel"
    /\ startswith(eval_a, "S")
    /\ evaluator_call.total_required > 0
    /\ evaluator_call.battery = battery_capacity
    /\ eval_needed_energy > 0

\* sum of the distances of all consecutive node pairs of a route, as the
\* legacy evaluator looks them up
RECURSIVE LegacyRouteDistance(_, _)
LegacyRouteDistance(rt, k) ==
    IF k > Len(rt) - 2 THEN 0
    ELSE legacy_get_distance(rt[k + 1], rt[k + 2], legacy_matrix, node_coords)
         + LegacyRouteDistance(rt, k + 1)

RECURSIVE LegacyTotalDistance(_, _)
LegacyTotalDistance(rs, k) ==
    IF k > Len(rs) THEN 0
    ELSE LegacyRouteDistance(rs[k], 0) + LegacyTotalDistance(rs, k + 1)

\* C14: a value that fitness.fitness_function returns for a feasible
\* chromosome is w1 * (total_distance / 100) + w2 * (total_charging_time /
\* 100), total_distance being the sum of the distances of all consecutive
\* pairs of every route, hops that arrive at a station included (this
\* evaluator's charging time is 0).
C14_LegacyWalksEveryHop ==
    (/\ pc = "scored"
     /\ legacy_fitness.status = "returned"
     /\ ~IsValue(legacy_fitness, invalid_penalty))
    => legacy_fitness.num * 1000
          = W_DISTANCE * LegacyTotalDistance(parse_routes(chromosome), 1) * legacy_fitness.den

\* the lookup of utils: build_distance_matrix read through get_distance
\* is symmetric and holds a zero self-distance for every node
UtilsLookupSymmetric ==
    LET ids == keys(builder_call.nodes)
        m == builder_call.dist
    IN \A a, b \in ids :
          /\ get_distance(a, b, m) = get_distance(b, a, m)
          /\ <<a, a>> \in DOMAIN m.entries /\ m.entries[<<a, a>>] = 0

\* the nested matrix of main_integrated likewise
IntegratedLookupSymmetric ==
    LET ids == keys(builder_call.nodes)
        m == builder_call.dist_matrix
    IN \A a, b \in ids : m[a][b] = m[b][a] /\ m[a][a] = 0

\* the tuple-keyed matrix of utlis likewise
UtlisLookupSymmetric ==
    LET ids == keys(builder_call.nodes)
        m == builder_call.distance_matrix
    IN \A a, b \in ids :
          /\ <<a, b>> \in DOMAIN m <=> <<b, a>> \in DOMAIN m
          /\ <<a, b>> \in DOMAIN m => m[<<a, b>>] = m[<<b, a>>]
          /\ <<a, a>> \in DOMAIN m /\ m[<<a, a>>] = 0

\* C15: every matrix builder of the repository (with its default
\* arguments) yields a lookup with distance(a, b) = distance(b, a) for all
\* nodes and a zero self-distance present for every node.
C15_BuildersSymmetric ==
    (pc = "built" /\ builder_call.symmetric) =>
        /\ UtilsLookupSymmetric
        /\ IntegratedLookupSymmetric
        /\ UtlisLookupSymmetric

\* the part of C15 that the code keeps: utils and main_integrated
BuildersSymmetricWithoutUtlis ==
    (pc = "built" /\ builder_call.symmetric) =>
        /\ UtilsLookupSymmetric
        /\ IntegratedLookupSymmetric
        /\ \A a, b \in keys(builder_call.nodes) :
              a # b => /\ <<a, b>> \in DOMAIN builder_call.distance_matrix
                       /\ builder_call.distance_matrix[<<a, b>>]
                             = builder_call.distance_matrix[<<b, a>>]

\* the segments between the separators of a chromosome, empty ones kept
RECURSIVE Segments(_, _, _)
Segments(chrom, k, cur) ==
    IF k > Len(chrom) THEN <<cur>>
    ELSE IF chrom[k] = "|" THEN <<cur>> \o Segments(chrom, k + 1, <<>>)
    ELSE Segments(chrom, k + 1, Append(cur, chrom[k]))

\* C16: split_routes returns the segments between the separators in
\* order, one more than there are separators, an empty segment as an
\* empty route.
C16_SplitCutsAtEverySeparator ==
    pc \in {"join", "joined"} =>
        /\ Len(nested) = Count(chromosome, "|") + 1
        /\ nested = Segments(chromosome, 1, <<>>)

\* C17: what join_routes returns holds max(0, len(routes) - 1) separators
\* and neither starts nor ends with one, empty routes in the list or not.
C17_JoinSeparators ==
    pc = "joined" =>
        /\ Count(flat, "|") = Max(0, Len(nested) - 1)
        /\ flat # <<>> => (flat[1] # "|" /\ flat[Len(flat)] # "|")

\* the part of C17 that the code keeps: the number of separators
JoinSeparatorCount ==
    pc = "joined" => Count(flat, "|") = Max(0, Len(nested) - 1)

\* the claim's parents: every route starts and ends with a depot
DepotBounded(chrom) ==
    LET segs == Segments(chrom, 1, <<>>)
    IN \A k \in 1..Len(segs) :
          /\ segs[k] # <<>>
          /\ startswith(segs[k][1], "D")
          /\ startswith(segs[k][Len(segs[k])], "D")

\* both parents hold the same customers, each exactly once
SameCustomersOnce(chrom1, chrom2) ==
    \A c \in Customers : Count(chrom1, c) = Count(chrom2, c) /\ Count(chrom1, c) <= 1

CrossoverPrecondition ==
    /\ DepotBounded(crossover_call.chrom1)
    /\ DepotBounded(crossover_call.chrom2)
    /\ SameCustomersOnce(crossover_call.chrom1, crossover_call.chrom2)

\* a returned child with every customer of the first parent exactly once
KeepsCustomers(child) ==
    /\ child # <<"TypeError">>
    /\ \A c \in Customers : Count(child, c) = Count(crossover_call.chrom1, c)

\* C18: for parents whose routes start and end with a depot and that hold
\* the same customers once each, the child of crossover.bcrc_crossover and
\* the child of ga.operators.bcrc_crossover hold every one of those
\* customers exactly once, whichever customer is drawn and whatever the
\* distance matrix answers.
C18_CrossoverKeepsCustomers ==
    /\ (pc \in {"crossover_ga", "crossed"} /\ CrossoverPrecondition) =>
          KeepsCustomers(crossover_call.child)
    /\ (pc = "crossed" /\ CrossoverPrecondition) =>
          KeepsCustomers(crossover_call.ga_child)

\* two customers, every lookup +inf: the drawn customer was taken out of
\* the second parent and put back behind the first depot
C18_Witness ==
    /\ pc = "crossed"
    /\ CrossoverPrecondition
    /\ crossover_call.dist.entries = <<>>
    /\ Count(crossover_call.chrom1, "C1") = 1
    /\ Count(crossover_call.chrom1, "C2") = 1
    /\ crossover_call.customer = "C2"
    /\ crossover_call.chrom2[2] # "C2"
    /\ crossover_call.child[2] = "C2"
    /\ crossover_call.ga_child # crossover_call.chrom2

\* the cheapest position decided: the child differs from the second
\* parent and the customer is not behind the first depot
C18_CheapestInsertion ==
    /\ pc = "crossed"
    /\ CrossoverPrecondition
    /\ crossover_call.customer = "C1"
    /\ crossover_call.child # crossover_call.chrom2
    /\ crossover_call.child[2] # "C1"
    /\ crossover_call.ga_customer = "C1"
    /\ crossover_call.ga_child # crossover_call.chrom2
    /\ crossover_call.ga_child[2] # "C1"

\* no call of the crossover raises TypeError on any explored input
CrossoverNeverRaises ==
    pc \in {"crossover_ga", "crossed"} => crossover_call.child # <<"TypeError">>

\* the individuals of a list of parents
Members(ps) == {ps[k] : k \in 1..Len(ps)}

\* some elite_size individuals with the lowest scores are all among ps
ElitesAmong(ps) ==
    \E E \in SUBSET (1..Len(selection_call.population)) :
        /\ Cardinality(E) = selection_call.elite_size
        /\ \A x \in E, y \in (1..Len(selection_call.population)) \ E :
              selection_call.fitness_scores[x] <= selection_call.fitness_scores[y]
        /\ \A x \in E : selection_call.population[x] \in Members(ps)

SelectionPrecondition ==
    /\ selection_call.population # <<>>
    /\ selection_call.elite_size >= 0
    /\ selection_call.elite_size <= Len(selection_call.population)

\* as many parents as individuals, all of the population, elites included
KeepsPopulation(st, ps) ==
    /\ st = "returned"
    /\ Len(ps) = Len(selection_call.population)
    /\ Members(ps) \subseteq Members(selection_call.population)
    /\ ElitesAmong(ps)

\* C19: for a non-empty population with finite scores and
\* 0 <= elite_size <= len(population), both selection functions return
\* exactly len(population) parents, each a member of the population, the
\* elite_size individuals with the lowest fitness among them.
C19_SelectionKeepsElitesAndSize ==
    (pc = "selected" /\ SelectionPrecondition) =>
        /\ KeepsPopulation(selection_call.ga_status, selection_call.parents)
        /\ KeepsPopulation(selection_call.status, selection_call.new_parents)

\* the same when every tournament has at least one participant
SelectionWithParticipants ==
    (pc = "selected" /\ SelectionPrecondition /\ selection_call.tournament_size >= 1) =>
        /\ KeepsPopulation(selection_call.ga_status, selection_call.parents)
        /\ KeepsPopulation(selection_call.status, selection_call.new_parents)

\* tournaments were held and a tournament with repeated draws was among them
SelectionWithParticipantsReached ==
    /\ pc = "selected"
    /\ SelectionPrecondition
    /\ selection_call.tournament_size > Len(selection_call.population)
    /\ selection_call.elite_size = 1
    /\ Len(selection_call.population) = 3
    /\ selection_call.status = "returned"

\* the routes of old_depot, as the mutation names them by their first node
InRouteOf(chrom, customer, depot) ==
    LET segs == Segments(chrom, 1, <<>>)
    IN \E k \in 1..Len(segs) :
          /\ segs[k] # <<>>
          /\ segs[k][1] = depot
          /\ Count(segs[k], customer) = 1

MutationPrecondition ==
    /\ DepotBounded(mutation_call.chromosome)
    /\ \A c \in Customers : Count(mutation_call.chromosome, c) <= 1
    /\ InRouteOf(mutation_call.chromosome, mutation_call.customer, mutation_call.old_depot)
    /\ mutation_call.old_depot # mutation_call.new_depot

\* a delimiter-flat list whose routes are non-empty
DelimiterFlat(chrom) ==
    LET segs == Segments(chrom, 1, <<>>)
    IN \A k \in 1..Len(segs) : segs[k] # <<>>

\* C20: for a well-formed chromosome with the customer in a route of
\* old_depot and old_depot different from new_depot,
\* reassign_customer_to_depot returns a delimiter-flat list that holds the
\* moved customer exactly once, in a route that starts and ends at
\* new_depot, and every other customer as often as before.
C20_ReassignKeepsCustomers ==
    (pc = "reassigned" /\ MutationPrecondition) =>
        LET new == mutation_call.new_chromosome
            segs == Segments(new, 1, <<>>)
        IN /\ DelimiterFlat(new)
           /\ Count(new, mutation_call.customer) = 1
           /\ \E k \in 1..Len(segs) :
                 /\ Count(segs[k], mutation_call.customer) = 1
                 /\ segs[k][1] = mutation_call.new_depot
                 /\ segs[k][Len(segs[k])] = mutation_call.new_depot
           /\ \A c \in Customers \ {mutation_call.customer} :
                 Count(new, c) = Count(mutation_call.chromosome, c)

\* C1 moved from a route of D1 that keeps C2 into the route of D2, behind
\* the station that route holds
C20_Witness ==
    /\ pc = "reassigned"
    /\ MutationPrecondition
    /\ mutation_call.chromosome = <<"D1", "C1", "C2", "D1", "|", "D2", "S1", "D2">>
    /\ mutation_call.customer = "C1"
    /\ mutation_call.insert_pos = 1
    /\ mutation_call.new_chromosome = <<"D1", "C2", "D1", "|", "D2", "S1", "C1", "D2">>

\* the customer's route is emptied and dropped, and a new route of
\* new_depot is appended
C20_NewRoute ==
    /\ pc = "reassigned"
    /\ MutationPrecondition
    /\ mutation_call.chromosome = <<"D1", "C1", "D1">>
    /\ mutation_call.new_chromosome = <<"D2", "C1", "D2">>

\* a / b <= c / d for returned values (positive denominators)
ValueLeq(v1, v2) ==
    /\ v1.status = "returned"
    /\ v2.status = "returned"
    /\ v1.num * v2.den <= v2.num * v1.den

\* the evaluator's loops on the chromosome of the state with charging rate cr
WalkWithRate(cr) ==
    walk(split_routes(chromosome), 1, 0, battery_capacity, 0, 0,
         [matrix |-> distance_matrix, battery_capacity |-> battery_capacity,
          consumption_rate |-> consumption_rate, charging_rate |-> cr])

\* a call with a positive rate has returned a score below the sentinel
ScoredFeasible ==
    /\ pc = "scored"
    /\ evaluator_call.charging_rate > 0
    /\ Below(fitness, INFEASIBLE_PENALTY)

\* C21: when a call with positive charging rate r1 finds the chromosome
\* feasible, a call with any larger rate r2 and otherwise the same
\* arguments finds it feasible too, accumulates a total charging time
\* (charged energy over rate) that is not larger, and returns a score that
\* is not higher (the weights are non-negative).
C21_ChargingMonotone ==
    ScoredFeasible =>
        \A r2 \in {x \in Rates : x > evaluator_call.charging_rate} :
            /\ WalkWithRate(r2).outcome = "feasible"
            /\ WalkWithRate(r2).total_required * evaluator_call.charging_rate
                  <= evaluator_call.total_required * r2
            /\ ValueLeq(fitness_function(chromosome, distance_matrix, battery_capacity,
                                         consumption_rate, r2,
                                         evaluator_call.w_distance,
                                         evaluator_call.w_charging),
                        fitness)

\* a station stop charged energy at rate 1, and rate 2 gives a strictly
\* lower score
C21_Witness ==
    /\ ScoredFeasible
    /\ evaluator_call.charging_rate = 1
    /\ evaluator_call.total_required > 0
    /\ ~ValueLeq(fitness,
                 fitness_function(chromosome, distance_matrix, battery_capacity,
                                  consumption_rate, 2,
                                  evaluator_call.w_distance, evaluator_call.w_charging))

\* energy to travel from the current node along the remaining route to the
\* next station-or-depot node: the hop to the pending node, and from there
\* the hops of the route up to the first station or depot
EnergyOfNextLeg ==
    dist_matrix[current_node][next_node] * consumption_rate
    + (IF startswith(next_node, "D") \/ startswith(next_node, "S") THEN 0
       ELSE calculate_energy_to_next_stop(route, i + 1, dist_matrix, consumption_rate))

AtChargingNode ==
    InLoop /\ (startswith(current_node, "D") \/ startswith(current_node, "S"))

\* C22: whenever the repair is about to simulate a hop away from a depot or
\* station node (a station it has just inserted included), the battery
\* after the charging step is min(battery_capacity, max(previous battery,
\* E)), and so at least min(battery_capacity, E), where E is the energy to
\* travel from that node along the remaining route to the next
\* station-or-depot node.
C22_PartialChargingCoversLeg ==
    AtChargingNode =>
        /\ charged_battery >= Min(battery_capacity, EnergyOfNextLeg)
        /\ charged_battery = Min(battery_capacity, Max(current_battery, EnergyOfNextLeg))

\* the same at the nodes of the input route (not at an inserted station)
PartialChargingAtRouteNodes ==
    (AtChargingNode /\ current_node = route[i + 1]) =>
        /\ charged_battery >= Min(battery_capacity, EnergyOfNextLeg)
        /\ charged_battery = Min(battery_capacity, Max(current_battery, EnergyOfNextLeg))

\* a hop away from a depot of the input route is about to be simulated with
\* a battery that the charging step raised
PartialChargingAtRouteNodesReached ==
    /\ AtChargingNode
    /\ current_node = route[i + 1]
    /\ i > 0
    /\ charged_battery > current_battery

\* energy of the hops of the running route from the departure node up to
\* and including the hop that reaches the next station or depot
EnergyToNextStop ==
    SumNeed(eval_route, evaluator_call.i, LegEnd(eval_route, evaluator_call.i))

\* C23: in a hop of the evaluator whose departure node is a station the
\* battery becomes min(battery_capacity, max(battery, E)) and the charged
\* energy grows by max(0, E - battery), the charging time added being that
\* energy over charging_rate; E is the energy of the hops from the station
\* up to and including the hop that reaches the next station or depot.  In
\* a hop whose departure node is a customer or a depot the battery is not
\* increased and nothing is charged.
C23_StationTopUp ==
    [][(pc = "eval_hop" /\ pc' = "eval_travel") =>
          IF startswith(eval_a, "S")
          THEN /\ evaluator_call'.battery =
                      Min(battery_capacity, Max(evaluator_call.battery, EnergyToNextStop))
               /\ evaluator_call'.total_required - evaluator_call.total_required =
                      Max(0, EnergyToNextStop - evaluator_call.battery)
          ELSE /\ evaluator_call'.battery = evaluator_call.battery
               /\ evaluator_call'.total_required = evaluator_call.total_required]_vars

\* a station topped the battery up to less than the capacity, on a leg of
\* more than one hop
C23_Witness ==
    /\ pc = "eval_travel"
    /\ startswith(eval_a, "S")
    /\ startswith(eval_b, "C")
    /\ evaluator_call.total_required > 0
    /\ evaluator_call.battery < battery_capacity
    /\ evaluator_call.battery > eval_needed_energy

\* positions in station_ids of the stations the charged battery reaches
\* from the current node
ReachableStations ==
    {k \in 1..Len(station_ids) :
        charged_battery >= dist_matrix[current_node][station_ids[k]] * consumption_rate}

\* s is a reachable station at minimal distance, the first such in
\* station_ids order
NearestReachable(s) ==
    \E k \in ReachableStations :
        /\ s = station_ids[k]
        /\ \A j \in ReachableStations :
              /\ dist_matrix[current_node][station_ids[k]]
                    <= dist_matrix[current_node][station_ids[j]]
              /\ dist_matrix[current_node][station_ids[j]]
                    = dist_matrix[current_node][station_ids[k]] => k <= j

\* C24: when the battery does not cover the pending hop, the station search
\* returns no station exactly when no station is reachable, and otherwise
\* the reachable station at minimal distance (the first in station_ids
\* order on equal distances); the repair then deducts that station's
\* travel cost from the battery, appends the station to the output route
\* and keeps the pending next node pending.
C24_NearestReachableStation ==
    [][(InLoop /\ charged_battery < hop_energy_needed) =>
          IF ReachableStations = {}
          THEN /\ chosen_station = None
               /\ new_route' = Append(new_route, next_node)
          ELSE /\ NearestReachable(chosen_station)
               /\ new_route' = Append(new_route, chosen_station)
               /\ current_battery' = charged_battery
                      - dist_matrix[current_node][chosen_station] * consumption_rate
               /\ current_node' = chosen_station
               /\ i' = i
               /\ route' = route]_vars

\* S2 was inserted although S1 comes first and is reachable too: S2 is
\* strictly nearer; the pending node is still pending
C24_Witness ==
    /\ InLoop
    /\ station_ids = <<"S1", "S2">>
    /\ Len(new_route) >= 2
    /\ current_node = "S2"
    /\ new_route[Len(new_route)] = "S2"
    /\ new_route[Len(new_route) - 1] = route[i + 1]
    /\ route[i + 1] # "S2"
    /\ dist_matrix[route[i + 1]]["S1"] > dist_matrix[route[i + 1]]["S2"]
    /\ dist_matrix[route[i + 1]]["S1"] * consumption_rate <= battery_capacity
    /\ startswith(route[i + 1], "D")

\* S1 was inserted at the same distance as S2
C24_TieBreak ==
    /\ InLoop
    /\ station_ids = <<"S1", "S2">>
    /\ Len(new_route) >= 2
    /\ current_node = "S1"
    /\ new_route[Len(new_route)] = "S1"
    /\ new_route[Len(new_route) - 1] = route[i + 1]
    /\ route[i + 1] # "S1"
    /\ dist_matrix[route[i + 1]]["S1"] = dist_matrix[route[i + 1]]["S2"]
    /\ dist_matrix[route[i + 1]]["S1"] > 0

\* the non-empty segments between the separators of a chromosome
NonEmptySegments(chrom) ==
    SelectSeq(Segments(chrom, 1, <<>>), LAMBDA seg : seg # <<>>)

\* a flat chromosome without leading, trailing or consecutive separators
\* that has one route per non-empty segment of the input
WellFormedOutput(out) ==
    /\ WellFormedSeparators(out)
    /\ Len(NonEmptySegments(out)) = Len(NonEmptySegments(chromosome))
    /\ out # <<>> => Len(Segments(out, 1, <<>>)) = Len(NonEmptySegments(chromosome))

\* C25: for every input chromosome, degenerate ones included, the repair
\* returns (no iteration of its loop leaves the loop state as it was, so
\* the loop ends), and what it returns has no leading, trailing or
\* consecutive separators and exactly one route per non-empty input
\* segment.
C25_RepairOutputWellFormed ==
    [][/\ InLoop => LoopState' # LoopState
       /\ pc' = "done" => WellFormedOutput(repaired_chromosome')]_vars

\* what the repair returns, when it returns, is well-formed
ReturnedOutputWellFormed ==
    pc = "done" => WellFormedOutput(repaired_chromosome)

\* the repair returned on an input with leading and consecutive separators
ReturnedOnDegenerateInput ==
    /\ pc = "done"
    /\ Len(chromosome) >= 3
    /\ chromosome[1] = "|"
    /\ chromosome[2] = "|"
    /\ repaired_chromosome # <<>>

\* the log of a generation that ran evaluation, selection, crossover,
\* mutation and repair in this order
FullGeneration(steps) ==
    /\ Len(steps) >= 5
    /\ SubSeq(steps, 1, 5) = <<"evaluation", "selection", "crossover", "mutation", "repair">>

\* C26: every generation of run_integrated_ga runs evaluation, selection,
\* crossover, mutation and repair in this order, and the population it
\* leaves is not merely the selection output.
C26_GenerationOrder ==
    [][pc = "reproduksi" /\ pc' = "hitung_fitness"
       => /\ FullGeneration(integrated_call.steps)
          /\ integrated_call'.population # integrated_call.parents]_vars

\* C26, what the code does instead: a generation that completes has run
\* evaluation and selection only and leaves the selection output as the
\* next population.
GenerationIsSelectionOnly ==
    [][pc = "reproduksi" /\ pc' = "hitung_fitness"
       => /\ integrated_call.steps = <<"evaluation", "selection">>
          /\ integrated_call'.population = integrated_call.parents]_vars

\* C26: a generation completed under the shipped shape of configuration
\* (tournament_size 5, elite_size 2)
GenerationCompleted ==
    /\ pc = "hitung_fitness"
    /\ integrated_call.gen = 2
    /\ integrated_call.config.tournament_size = 5
    /\ integrated_call.config.elite_size = 2

\* C26: the initial repair raised on a population of integer genes, before
\* any generation
InitialRepairRaised ==
    /\ pc = "integrated_done"
    /\ integrated_call.status = "KeyError"
    /\ integrated_call.vehicles >= 1
    /\ integrated_call.population[1]
          \in GeneratedIndividuals(integrated_call.vehicles, integrated_call.battery_cap)
    /\ integrated_call.steps = <<>>

\* C26: the loop body was entered and the call of apply_mutation raised
MutationCallRaised ==
    /\ pc = "integrated_done"
    /\ integrated_call.status = "TypeError"
    /\ integrated_call.steps = <<"evaluation", "selection", "crossover">>

\* whether a sequence of scores never increases
NonIncreasing(history) ==
    \A k \in 1..(Len(history) - 1) : ~less_than(history[k], history[k + 1])

\* C27: after every call of run_generation, best_fitness is the least score
\* observed so far, best_solution is a chromosome that scored it when it was
\* evaluated, best_fitness_history never increases and has one entry per
\* generation, and the population has population_size chromosomes.
C27_BestSeenTracking ==
    pc = "run_generation" /\ ga.called /\ ga.generation >= 1
    => /\ \E o \in ga.observed : o[2] = ga.best_fitness
       /\ \A o \in ga.observed : ga.best_fitness <= o[2]
       /\ <<ga.best_solution, ga.best_fitness>> \in ga.observed
       /\ NonIncreasing(ga.best_fitness_history)
       /\ Len(ga.best_fitness_history) = ga.generation
       /\ Len(ga.population) = ga.population_size

\* C27: two generations have run, and the best score of the second is worse
\* than the best seen, which best_fitness has kept
C27_Witness ==
    /\ pc = "run_generation"
    /\ ga.called
    /\ ga.generation = 2
    /\ ga.best_fitness < min_score(ga.fitness_scores)
    /\ ga.best_fitness_history = <<ga.best_fitness, ga.best_fitness>>

\* C27: the second generation found a better chromosome than the first,
\* after one was replaced as infeasible
BestImproved ==
    /\ pc = "run_generation"
    /\ ga.called
    /\ ga.generation = 2
    /\ ga.best_fitness_history[2] < ga.best_fitness_history[1]
    /\ ga.infeasible_count >= 1

\* C27: when run_generation raises, after the best is tracked, the
\* population is the one that was evaluated
RaisedAfterTracking ==
    pc = "ga_raised"
    => /\ ga.status \in {"IndexError", "AttributeError"}
       /\ \A o \in ga.observed : ga.best_fitness <= o[2]
       /\ <<ga.best_solution, ga.best_fitness>> \in ga.observed
       /\ NonIncreasing(ga.best_fitness_history)
       /\ Len(ga.best_fitness_history) = ga.generation + 1
       /\ Len(ga.population) = ga.population_size

\* C28: when repair_chromosome finishes on a well-formed chromosome without
\* taking the dead-end branch, ga.evaluator.fitness_function does not return
\* the infeasibility sentinel for the repaired chromosome, with the same
\* battery_capacity and consumption_rate.
C28_RepairSuccessIsFeasible ==
    (pc = "done" /\ ~dead_end /\ WellFormed(chromosome))
        => ~Infeasible(repaired_chromosome)

\* C28: a well-formed chromosome that scored the sentinel was repaired with
\* an inserted station and no dead end
C28_Witness ==
    /\ pc = "done"
    /\ ~dead_end
    /\ WellFormed(chromosome)
    /\ Infeasible(chromosome)
    /\ Len(repaired_chromosome) > Len(chromosome)
    /\ ~Infeasible(repaired_chromosome)

\* C29: repair_chromosome is idempotent on its successful outputs: the call
\* on the result of a call that took no dead end inserts no station, takes
\* no dead end and returns its argument.
C29_RepairIdempotent ==
    first_pass.called
    => /\ ~dead_end
       /\ pc = "loop" => /\ Len(new_route) <= Len(route)
                         /\ \A k \in 1..Len(new_route) : new_route[k] = route[k]
       /\ pc = "done" => /\ repaired_chromosome = first_pass.repaired_chromosome
                         /\ repaired_chromosome = chromosome

\* C29: the second call has returned on the result of a call that inserted
\* two stations
C29_Witness ==
    /\ first_pass.called
    /\ pc = "done"
    /\ Len(first_pass.repaired_chromosome) >= Len(first_pass.chromosome) + 2
    /\ repaired_chromosome = first_pass.repaired_chromosome

\* C30: fitness.fitness_function is never stricter than
\* ga.evaluator.fitness_function on the same distances: when the latter
\* returns a score below INFEASIBLE_PENALTY the former returns one below
\* invalid_penalty, it completes every hop the latter completes, and after
\* each of them its battery is at least the latter's.
C30_LegacyNeverStricter ==
    pc = "scored"
    => /\ Below(fitness, INFEASIBLE_PENALTY) => Below(legacy_fitness, invalid_penalty)
       /\ Len(legacy_run) >= Len(lookahead_run)
       /\ \A k \in 1..Len(lookahead_run) : legacy_run[k] >= lookahead_run[k]

\* C30: both evaluators have scored below their sentinels a route that
\* charges at a station, over distances that are not all zero as the legacy
\* evaluator sees them, and at some hop the legacy battery is the larger one
C30_Witness ==
    /\ pc = "scored"
    /\ Below(fitness, INFEASIBLE_PENALTY)
    /\ Below(legacy_fitness, invalid_penalty)
    /\ legacy_matrix.given
    /\ legacy_matrix.entries # <<>>
    /\ \E k \in 1..Len(chromosome) : startswith(chromosome[k], "S")
    /\ Len(lookahead_run) = hops_of(chromosome)
    /\ \E k \in 1..Len(lookahead_run) : /\ legacy_run[k] > lookahead_run[k]
                                          /\ legacy_run[k] < battery_capacity

\* C30: the lookahead evaluator returned its sentinel where the legacy one,
\* given the same distances by id, returned a score
LegacyMoreLenient ==
    /\ pc = "scored"
    /\ IsValue(fitness, INFEASIBLE_PENALTY)
    /\ Below(legacy_fitness, invalid_penalty)
    /\ legacy_matrix.given
    /\ legacy_matrix.entries # <<>>

====
